---- MODULE Spec2Model ----
(***************************************************************************)
(* DeepRecall: the incremental content-addressed indexer, the vector       *)
(* store (durable bbolt bucket + in-memory mirror), and the debounced file *)
(* watcher, modelled from the Go sources.                                  *)
(*                                                                         *)
(* Three specifications share the definitions below:                       *)
(*   SpecStore  VectorStore under concurrent callers (fine-grained steps)  *)
(*   SpecIndex  Indexer.IndexFile over a changing file system and cache    *)
(*   SpecWatch  Watcher + Orchestrator callback + Indexer + VectorStore    *)
(***************************************************************************)
EXTENDS Integers, Sequences, FiniteSets, TLC

None == "none"

(***************************************************************************)
(* Bytes and text.  A file is a sequence over a three-symbol alphabet:     *)
(* NL is '\n', the other two are letters.                                  *)
(***************************************************************************)
NL == 0

IsSpace(r) == r = NL

Min(a, b) == IF a < b THEN a ELSE b

\* runes[i:end] of Go (0-based, end exclusive)
Slice(s, i, end) == SubSeq(s, i + 1, end)

\* utils.FileHash / ContentHash: SHA-256 of the bytes, taken as collision
\* free: an injective digest (base-4 digits 1..3 behind a leading 1).
RECURSIVE DigestFrom(_, _, _)
DigestFrom(b, i, acc) ==
    IF i > Len(b) THEN acc ELSE DigestFrom(b, i + 1, acc * 4 + (b[i] + 1))

FileHash(b) == DigestFrom(b, 1, 1)

\* strings.TrimSpace
RECURSIVE TrimLeft(_)
TrimLeft(s) ==
    IF s # <<>> /\ IsSpace(Head(s)) THEN TrimLeft(Tail(s)) ELSE s

RECURSIVE TrimRight(_)
TrimRight(s) ==
    IF s # <<>> /\ IsSpace(s[Len(s)]) THEN TrimRight(SubSeq(s, 1, Len(s) - 1)) ELSE s

TrimSpace(s) == TrimRight(TrimLeft(s))

\* Parser.parseText: bufio.Scanner splits on '\n'; every line read is written
\* back followed by "\n" (so a last line without newline gains one).
parseText(b) ==
    IF b = <<>> THEN <<>>
    ELSE IF b[Len(b)] = NL THEN b ELSE Append(b, NL)

(***************************************************************************)
(* Configuration (config.Config, read from config.yaml).                   *)
(***************************************************************************)
ChunkSize == 3
ChunkOverlap == 1
MinChunkSize == 1
BatchSize == 1
SupportedExtensions == {".txt"}
TopK == 1

\* time.AfterFunc(2*time.Second, ...), in clock ticks of one second
QuietPeriod == 2

(***************************************************************************)
(* Documents and chunks (models.Document, models.Chunk).                   *)
(***************************************************************************)
NoID == <<>>

\* Parser.ParseDocument on a text file whose bytes were `content` bytes when
\* read, `hashed` bytes when hashed, and whose stat returned mtime.
Document(path, content, hashed, mtime) ==
    [ID |-> FileHash(hashed), FilePath |-> path, Content |-> parseText(content),
     Hash |-> FileHash(hashed), FileModTime |-> mtime]

\* a chunk that keeps the window as it is, without strings.TrimSpace
NewChunkUntrimmed(doc, content, n) ==
    [ID |-> NoID, DocumentID |-> doc.ID, Content |-> content,
     Embedding |-> <<>>, Index |-> n, Source |-> doc.FilePath]

NewChunk(doc, content, n) ==
    [ID |-> NoID, DocumentID |-> doc.ID, Content |-> TrimSpace(content),
     Embedding |-> <<>>, Index |-> n, Source |-> doc.FilePath]

\* Embedder.chunkFixed: for i := 0; i < len(runes); i += size - overlap
RECURSIVE chunkFixedLoop(_, _, _, _, _, _)
chunkFixedLoop(doc, runes, size, overlap, i, chunks) ==
    IF ~(i < Len(runes)) THEN chunks
    ELSE LET end == Min(i + size, Len(runes))
             next == Append(chunks, NewChunk(doc, Slice(runes, i, end), Len(chunks)))
         IN  IF end >= Len(runes) THEN next
             ELSE chunkFixedLoop(doc, runes, size, overlap, i + (size - overlap), next)

chunkFixed(doc, text, size, overlap) == chunkFixedLoop(doc, text, size, overlap, 0, <<>>)

\* Embedder.ChunkDocument (cfg.Chunking.Method = "fixed"), with the
\* MinChunkSize post-filter.
ChunkDocument(doc) ==
    LET chunks == chunkFixed(doc, doc.Content, ChunkSize, ChunkOverlap)
        Keep(c) == Len(TrimSpace(c.Content)) >= MinChunkSize
    IN  SelectSeq(chunks, Keep)

\* The provider's vector for a text: (number of 1-letters, number of 2-letters).
Count(s, x) == Cardinality({i \in 1..Len(s) : s[i] = x})

EmbeddingOf(text) == <<Count(text, 1), Count(text, 2)>>

\* fmt.Sprintf("%s_%d", chunk.DocumentID, chunk.Index)
ChunkID(c) == <<c.DocumentID, c.Index>>

(***************************************************************************)
(* encoding/gob: a struct is sent as its non-zero fields; decoding fills   *)
(* the fields that were not sent with their zero values.                   *)
(***************************************************************************)
ZeroChunk ==
    [ID |-> NoID, DocumentID |-> 0, Content |-> <<>>, Embedding |-> <<>>,
     Index |-> 0, Source |-> ""]

GobEncode(rec, zero) ==
    LET sent == {f \in DOMAIN zero : rec[f] # zero[f]}
    IN  [f \in sent |-> rec[f]]

GobDecode(enc, zero) ==
    [f \in DOMAIN zero |-> IF f \in DOMAIN enc THEN enc[f] ELSE zero[f]]

EncodeChunk(c) == GobEncode(c, ZeroChunk)
DecodeChunk(e) == GobDecode(e, ZeroChunk)

(***************************************************************************)
(* The file versions, paths and callers the specifications draw from.      *)
(***************************************************************************)
VersionA == <<1, 2, NL, 2>>
VersionB == <<2, 1>>
VersionBlank == <<NL>>

Threads == {"t1", "t2"}

VARIABLES
    \* retriever.VectorStore
    memory,     \* vs.memory: chunk id -> chunk
    durable,    \* committed content of the bbolt bucket "chunks": id -> gob bytes
    dbOpen,     \* the bbolt handle is open (until VectorStore.Close)
    mu,         \* vs.mu (sync.RWMutex): [writer, readers]
    op,         \* per caller: the VectorStore call it is inside, and where
    ret,        \* per caller: what its last call returned, until it calls again
    \* the file system and context.Indexer
    files,      \* path -> [bytes, mtime], or None for a missing file
    clock,      \* wall clock, in seconds
    docCache,   \* idx.docCache: path -> Document, or None
    cacheDocs,  \* <hash>.doc.gob files of the cache directory: hash -> gob bytes
    cacheChunks,\* <hash>.chunks.gob files: hash -> gob bytes
    last,       \* the IndexFile call that has just returned: inputs, route, result
    hist,       \* per path: what IndexFile last returned, and how the file changed since
    \* context.Watcher and the Orchestrator
    ready,      \* o.ready: Orchestrator.Start has returned nil
    watching,   \* the goroutine watch() is in its loop
    debounce,   \* the loop's map: path -> timer
    timers      \* every time.AfterFunc timer made so far, in order of creation

storeVars == <<memory, durable, dbOpen, mu, op, ret>>
indexVars == <<files, clock, docCache, cacheDocs, cacheChunks, last, hist>>
indexState == <<files, clock, docCache, cacheDocs, cacheChunks, hist>>
watchVars == <<ready, watching, debounce, timers>>
vars == <<storeVars, indexVars, watchVars>>

(***************************************************************************)
(* Embedder.CreateEmbeddings / getEmbeddings.  reply says what the         *)
(* provider does with the b-th batch: "ok" (one vector per text), "short"  *)
(* (one vector too few) or "error".                                        *)
(***************************************************************************)
RECURSIVE CreateEmbeddingsLoop(_, _, _, _)
CreateEmbeddingsLoop(chunks, i, b, reply) ==
    IF ~(i < Len(chunks)) THEN [err |-> FALSE, chunks |-> chunks, calls |-> b - 1]
    ELSE LET end == Min(i + BatchSize, Len(chunks))
             r == IF b = reply.errorAt THEN "error"
                  ELSE IF b = reply.shortAt THEN "short" ELSE "ok"
             got == IF r = "short" THEN (end - i) - 1 ELSE end - i
             set == [k \in 1..Len(chunks) |->
                        IF k > i /\ k <= i + got
                        THEN [chunks[k] EXCEPT !.Embedding = EmbeddingOf(chunks[k].Content)]
                        ELSE chunks[k]]
         IN  IF r = "error" THEN [err |-> TRUE, chunks |-> chunks, calls |-> b]
             ELSE CreateEmbeddingsLoop(set, i + BatchSize, b + 1, reply)

\* CreateEmbeddings that goes on after a provider error
CreateEmbeddingsIgnoringErrors(chunks, reply) ==
    [CreateEmbeddingsLoop(chunks, 0, 1, reply) EXCEPT !.err = FALSE]

CreateEmbeddings(chunks, reply) == CreateEmbeddingsLoop(chunks, 0, 1, reply)

\* the provider fails or falls short at one call, or at none (0)
Reply(errorAt, shortAt) == [errorAt |-> errorAt, shortAt |-> shortAt]
AllOk == Reply(0, 0)

\* the calls of one CreateEmbeddings at which the provider may fail
MaxBatches == 2

\* the chunk batch a caller hands to AddChunks for a file version
BatchOf(path, bytes) ==
    CreateEmbeddings(ChunkDocument(Document(path, bytes, bytes, 1)), AllOk).chunks

\* b.txt is a copy of a.txt at VersionB: same hash, so the same document id
\* and chunk ids as the batch InitStore may start from, with another Source
StoreBatches == {BatchOf("a.txt", VersionA), BatchOf("b.txt", VersionB)}
StoreDocIDs == {FileHash(VersionA), FileHash(VersionB)}

(***************************************************************************)
(* cosineSimilarity, in exact arithmetic.  A score is kept as the signed   *)
(* square of the cosine, num/den with den > 0: x -> sgn(x) * x^2 is        *)
(* increasing, so comparisons of scores are comparisons of these.          *)
(* NaN is Rat(0, 0): every comparison with it is false.                    *)
(*                                                                         *)
(* The products a[i] * b[i] are float32 products, widened afterwards.      *)
(* Embedding components are counted in units of 2^62, so a product is a    *)
(* multiple of 2^124: float32, whose finite values end below 2^128, holds  *)
(* it exactly when it is below F32Limit units and rounds it to an infinity *)
(* otherwise.  The float64 sums, square roots and the quotient of finite   *)
(* values are taken as exact.                                              *)
(***************************************************************************)
F32Limit == 16

RECURSIVE Dot(_, _, _)
Dot(a, b, i) == IF i > Len(a) THEN 0 ELSE a[i] * b[i] + Dot(a, b, i + 1)

Sgn(x) == IF x > 0 THEN 1 ELSE IF x < 0 THEN -1 ELSE 0

Rat(n, d) == [num |-> n, den |-> d]

cosineSimilarity(a, b) ==
    IF Len(a) # Len(b) THEN Rat(0, 1)
    ELSE LET \* the terms of the sum over x[i] * y[i] that are +Inf, -Inf
             up(x, y) == {i \in 1..Len(x) : x[i] * y[i] >= F32Limit}
             down(x, y) == {i \in 1..Len(x) : x[i] * y[i] <= -F32Limit}
             \* the sums, when every term is finite
             dotProduct == Dot(a, b, 1)
             normA == Dot(a, a, 1)
             normB == Dot(b, b, 1)
         IN  IF (up(a, a) = {} /\ normA = 0) \/ (up(b, b) = {} /\ normB = 0)
             THEN Rat(0, 1)
             \* dotProduct is +Inf, -Inf or NaN, and then a norm is +Inf
             ELSE IF up(a, b) # {} \/ down(a, b) # {} THEN Rat(0, 0)
             \* a finite dotProduct over an infinite denominator
             ELSE IF up(a, a) # {} \/ up(b, b) # {} THEN Rat(0, 1)
             ELSE Rat(Sgn(dotProduct) * dotProduct * dotProduct, normA * normB)

\* a threshold p/q (q > 0) on the same scale
Threshold(p, q) == Rat(Sgn(p) * p * p, q * q)

ScoreGE(x, y) == x.den # 0 /\ y.den # 0 /\ x.num * y.den >= y.num * x.den
ScoreGT(x, y) == x.den # 0 /\ y.den # 0 /\ x.num * y.den > y.num * x.den

\* sort.Slice(results, Score descending) on a short slice is an insertion
\* sort: equal scores keep the order in which the scan appended them.
RECURSIVE InsertByScore(_, _)
InsertByScore(sorted, r) ==
    IF sorted = <<>> THEN <<r>>
    ELSE IF ScoreGT(r.Score, sorted[Len(sorted)].Score)
         THEN Append(InsertByScore(SubSeq(sorted, 1, Len(sorted) - 1), r), sorted[Len(sorted)])
         ELSE Append(sorted, r)

RECURSIVE SortByScore(_, _, _)
SortByScore(results, i, acc) ==
    IF i > Len(results) THEN acc
    ELSE SortByScore(results, i + 1, InsertByScore(acc, results[i]))

\* a cut to topK without the sort
TopResultsUnsorted(results, topK) ==
    IF Len(results) > topK THEN SubSeq(results, 1, topK) ELSE results

\* the tail of Search: sort, then results[:topK]
TopResults(results, topK) ==
    LET sorted == SortByScore(results, 1, <<>>)
    IN  IF Len(sorted) > topK THEN SubSeq(sorted, 1, topK) ELSE sorted

\* an iteration that does not skip a chunk without an embedding
ScanChunkUnchecked(results, chunk, queryEmbedding, threshold) ==
    LET score == cosineSimilarity(queryEmbedding, chunk.Embedding)
    IN  IF ScoreGE(score, threshold)
        THEN Append(results, [Chunk |-> chunk, Score |-> score,
                              DocumentID |-> chunk.DocumentID])
        ELSE results

\* an iteration with the comparison turned round: score <= threshold
ScanChunkBelow(results, chunk, queryEmbedding, threshold) ==
    IF Len(chunk.Embedding) = 0 THEN results
    ELSE LET score == cosineSimilarity(queryEmbedding, chunk.Embedding)
         IN  IF ScoreGE(threshold, score)
             THEN Append(results, [Chunk |-> chunk, Score |-> score,
                                   DocumentID |-> chunk.DocumentID])
             ELSE results

\* one iteration of the scan loop of Search
ScanChunk(results, chunk, queryEmbedding, threshold) ==
    IF Len(chunk.Embedding) = 0 THEN results
    ELSE LET score == cosineSimilarity(queryEmbedding, chunk.Embedding)
         IN  IF ScoreGE(score, threshold)
             THEN Append(results, [Chunk |-> chunk, Score |-> score,
                                   DocumentID |-> chunk.DocumentID])
             ELSE results

\* VectorStore.GetStats: (distinct documents, chunks)
Stats(mem) ==
    <<Cardinality({mem[k].DocumentID : k \in DOMAIN mem}), Cardinality(DOMAIN mem)>>

(***************************************************************************)
(* Map and bucket helpers.                                                 *)
(***************************************************************************)
\* an insert that keeps a record already stored under the key
PutIfAbsent(f, k, v) == f @@ (k :> v)
Put(f, k, v) == (k :> v) @@ f
Remove(f, k) == [x \in DOMAIN f \ {k} |-> f[x]]
EmptyMap == <<>>

\* the bucket's keys in cursor order
KeyLess(a, b) == a[1] < b[1] \/ (a[1] = b[1] /\ a[2] < b[2])

RECURSIVE SortedKeys(_)
SortedKeys(S) ==
    IF S = {} THEN <<>>
    ELSE LET k == CHOOSE x \in S : \A y \in S \ {x} : KeyLess(x, y)
         IN  <<k>> \o SortedKeys(S \ {k})

\* VectorStore.loadIntoMemory
loadIntoMemory(bucket) == [k \in DOMAIN bucket |-> DecodeChunk(bucket[k])]

\* the chunk AddChunks stores: its ID is generated when empty
WithID(c) == IF c.ID = NoID THEN [c EXCEPT !.ID = ChunkID(c)] ELSE c

\* sync.RWMutex
CanLock(m) == m.writer = None /\ m.readers = {}
CanRLockIgnoringWriter(m) == TRUE
CanRLock(m) == m.writer = None
Unlocked == [writer |-> None, readers |-> {}]

(***************************************************************************)
(* VectorStore, step by step.  A caller is idle or inside one call; pc     *)
(* says where: "lock" (blocked on vs.mu), then the body of the call.       *)
(***************************************************************************)
Idle ==
    [kind |-> "idle", pc |-> "idle", batch |-> <<>>, i |-> 0, tx |-> EmptyMap,
     docID |-> 0, keys |-> <<>>, toDelete |-> <<>>, query |-> <<>>, topK |-> 0,
     threshold |-> Rat(0, 1), seen |-> {}, results |-> <<>>, snap |-> EmptyMap,
     text |-> <<>>, size |-> 0, overlap |-> 0, reply |-> "none", path |-> "", doc |-> <<>>]

Queries == {<<1, 1>>}
Thresholds == {Threshold(4, 5)}

Returned(kind, err, value) == [kind |-> kind, err |-> err, value |-> value]
NoReturn == Returned("none", FALSE, <<>>)

Mutating(t) == op[t].kind \in {"add", "delete"} /\ op[t].pc # "lock"
Reading(t) == op[t].kind \in {"search", "stats"} /\ op[t].pc # "lock"

\* AddChunks is called
AddChunks_Call(t, batch) ==
    /\ op[t].kind = "idle"
    /\ op' = [op EXCEPT ![t] = [Idle EXCEPT !.kind = "add", !.pc = "lock", !.batch = batch]]
    /\ ret' = [ret EXCEPT ![t] = NoReturn]
    /\ UNCHANGED <<memory, durable, dbOpen, mu>>
    /\ UNCHANGED <<indexVars, watchVars>>

\* vs.mu.Lock(); db.Update begins a read-write transaction (it fails at once
\* on a closed handle, before the function runs)
AddChunks_Lock(t) ==
    /\ op[t].kind = "add" /\ op[t].pc = "lock"
    /\ CanLock(mu)
    /\ IF dbOpen
       THEN /\ mu' = [mu EXCEPT !.writer = t]
            /\ op' = [op EXCEPT ![t].pc = "put", ![t].i = 1, ![t].tx = durable]
            /\ ret' = ret
       ELSE /\ mu' = mu
            /\ op' = [op EXCEPT ![t] = Idle]
            /\ ret' = [ret EXCEPT ![t] = Returned("add", TRUE, <<>>)]
    /\ UNCHANGED <<memory, durable, dbOpen>>
    /\ UNCHANGED <<indexVars, watchVars>>

\* one iteration of the loop: encode, bucket.Put, vs.memory[chunk.ID] = chunk.
\* An encode or Put error returns from the function: the transaction is
\* rolled back and the lock released.
AddChunks_Put(t) ==
    /\ op[t].kind = "add" /\ op[t].pc = "put"
    /\ op[t].i <= Len(op[t].batch)
    /\ \E ok \in BOOLEAN :
         LET chunk == WithID(op[t].batch[op[t].i])
         IN  IF ok
             THEN /\ op' = [op EXCEPT ![t].tx = Put(@, chunk.ID, EncodeChunk(chunk)),
                                      ![t].i = @ + 1]
                  /\ memory' = Put(memory, chunk.ID, chunk)
                  /\ mu' = mu
                  /\ ret' = ret
             ELSE /\ op' = [op EXCEPT ![t] = Idle]
                  /\ memory' = memory
                  /\ mu' = Unlocked
                  /\ ret' = [ret EXCEPT ![t] = Returned("add", TRUE, <<>>)]
    /\ UNCHANGED <<durable, dbOpen>>
    /\ UNCHANGED <<indexVars, watchVars>>

\* the function returned nil: commit (which can fail, and then rolls back),
\* then the deferred Unlock
AddChunks_Commit(t) ==
    /\ op[t].kind = "add" /\ op[t].pc = "put"
    /\ op[t].i > Len(op[t].batch)
    /\ \E ok \in BOOLEAN :
         /\ durable' = IF ok THEN op[t].tx ELSE durable
         /\ ret' = [ret EXCEPT ![t] = Returned("add", ~ok, <<>>)]
    /\ op' = [op EXCEPT ![t] = Idle]
    /\ mu' = Unlocked
    /\ UNCHANGED <<memory, dbOpen>>
    /\ UNCHANGED <<indexVars, watchVars>>

DeleteByDocumentID_Call(t, documentID) ==
    /\ op[t].kind = "idle"
    /\ op' = [op EXCEPT ![t] = [Idle EXCEPT !.kind = "delete", !.pc = "lock",
                                            !.docID = documentID]]
    /\ ret' = [ret EXCEPT ![t] = NoReturn]
    /\ UNCHANGED <<memory, durable, dbOpen, mu>>
    /\ UNCHANGED <<indexVars, watchVars>>

DeleteByDocumentID_Lock(t) ==
    /\ op[t].kind = "delete" /\ op[t].pc = "lock"
    /\ CanLock(mu)
    /\ IF dbOpen
       THEN /\ mu' = [mu EXCEPT !.writer = t]
            /\ op' = [op EXCEPT ![t].pc = "scan", ![t].i = 1, ![t].tx = durable,
                                ![t].keys = SortedKeys(DOMAIN durable)]
            /\ ret' = ret
       ELSE /\ mu' = mu
            /\ op' = [op EXCEPT ![t] = Idle]
            /\ ret' = [ret EXCEPT ![t] = Returned("delete", TRUE, <<>>)]
    /\ UNCHANGED <<memory, durable, dbOpen>>
    /\ UNCHANGED <<indexVars, watchVars>>

\* one step of the cursor: decode; a match is noted in toDelete and deleted
\* from vs.memory at once
DeleteByDocumentID_Scan(t) ==
    /\ op[t].kind = "delete" /\ op[t].pc = "scan"
    /\ op[t].i <= Len(op[t].keys)
    /\ LET k == op[t].keys[op[t].i]
           chunk == DecodeChunk(op[t].tx[k])
       IN  IF chunk.DocumentID = op[t].docID
           THEN /\ op' = [op EXCEPT ![t].toDelete = Append(@, k), ![t].i = @ + 1]
                /\ memory' = Remove(memory, k)
           ELSE /\ op' = [op EXCEPT ![t].i = @ + 1]
                /\ memory' = memory
    /\ UNCHANGED <<durable, dbOpen, mu>>
    /\ UNCHANGED <<ret, indexVars, watchVars>>

\* the second loop: bucket.Delete(key); an error returns (rollback, unlock)
DeleteByDocumentID_Delete(t) ==
    /\ op[t].kind = "delete" /\ op[t].pc = "scan"
    /\ op[t].i > Len(op[t].keys)
    /\ op[t].toDelete # <<>>
    /\ \E ok \in BOOLEAN :
         IF ok
         THEN /\ op' = [op EXCEPT ![t].tx = Remove(@, Head(op[t].toDelete)),
                                  ![t].toDelete = Tail(@)]
              /\ mu' = mu
              /\ ret' = ret
         ELSE /\ op' = [op EXCEPT ![t] = Idle]
              /\ mu' = Unlocked
              /\ ret' = [ret EXCEPT ![t] = Returned("delete", TRUE, <<>>)]
    /\ UNCHANGED <<memory, durable, dbOpen>>
    /\ UNCHANGED <<indexVars, watchVars>>

DeleteByDocumentID_Commit(t) ==
    /\ op[t].kind = "delete" /\ op[t].pc = "scan"
    /\ op[t].i > Len(op[t].keys)
    /\ op[t].toDelete = <<>>
    /\ \E ok \in BOOLEAN :
         /\ durable' = IF ok THEN op[t].tx ELSE durable
         /\ ret' = [ret EXCEPT ![t] = Returned("delete", ~ok, <<>>)]
    /\ op' = [op EXCEPT ![t] = Idle]
    /\ mu' = Unlocked
    /\ UNCHANGED <<memory, dbOpen>>
    /\ UNCHANGED <<indexVars, watchVars>>

Search_Call(t, queryEmbedding, topK, threshold) ==
    /\ op[t].kind = "idle"
    /\ op' = [op EXCEPT ![t] = [Idle EXCEPT !.kind = "search", !.pc = "lock",
                                            !.query = queryEmbedding, !.topK = topK,
                                            !.threshold = threshold]]
    /\ ret' = [ret EXCEPT ![t] = NoReturn]
    /\ UNCHANGED <<memory, durable, dbOpen, mu>>
    /\ UNCHANGED <<indexVars, watchVars>>

\* vs.mu.RLock(); snap records the mirror the scan starts from
Search_RLock(t) ==
    /\ op[t].kind = "search" /\ op[t].pc = "lock"
    /\ CanRLock(mu)
    /\ mu' = [mu EXCEPT !.readers = @ \cup {t}]
    /\ op' = [op EXCEPT ![t].pc = "scan", ![t].snap = memory]
    /\ UNCHANGED <<memory, durable, dbOpen>>
    /\ UNCHANGED <<ret, indexVars, watchVars>>

\* one iteration of `for _, chunk := range vs.memory` (any order)
Search_Scan(t) ==
    /\ op[t].kind = "search" /\ op[t].pc = "scan"
    /\ \E k \in DOMAIN memory \ op[t].seen :
         op' = [op EXCEPT ![t].seen = @ \cup {k},
                          ![t].results = ScanChunk(@, memory[k], op[t].query,
                                                   op[t].threshold)]
    /\ UNCHANGED <<memory, durable, dbOpen, mu>>
    /\ UNCHANGED <<ret, indexVars, watchVars>>

\* the range is exhausted: sort, cut to topK, RUnlock.  The caller is idle
\* again and still holds the arguments it passed, next to the result.
Search_Return(t) ==
    /\ op[t].kind = "search" /\ op[t].pc = "scan"
    /\ DOMAIN memory \ op[t].seen = {}
    /\ ret' = [ret EXCEPT ![t] = Returned("search", FALSE, TopResults(op[t].results, op[t].topK))]
    /\ op' = [op EXCEPT ![t] = [Idle EXCEPT !.query = op[t].query, !.topK = op[t].topK,
                                            !.threshold = op[t].threshold,
                                            !.text = op[t].text, !.reply = op[t].reply]]
    /\ mu' = [mu EXCEPT !.readers = @ \ {t}]
    /\ UNCHANGED <<memory, durable, dbOpen>>
    /\ UNCHANGED <<indexVars, watchVars>>

\* Retriever.Retrieve(query) is called: the request for the query's
\* embedding goes out under context.Background().  reply is what the
\* provider does with it: "ok" (one vector), "short" (a response without
\* data), "error", or "silent" (no response at all).
Retrieve_Call(t, query, threshold, reply) ==
    /\ op[t].kind = "idle"
    /\ op' = [op EXCEPT ![t] = [Idle EXCEPT !.kind = "retrieve", !.pc = "embed",
                                            !.text = query, !.threshold = threshold,
                                            !.reply = reply]]
    /\ ret' = [ret EXCEPT ![t] = NoReturn]
    /\ UNCHANGED <<memory, durable, dbOpen, mu>>
    /\ UNCHANGED <<indexVars, watchVars>>

\* a CreateEmbedding that passes on a response without data
Retrieve_CreateEmbeddingLenient(t) ==
    /\ op[t].kind = "retrieve" /\ op[t].pc = "embed"
    /\ op[t].reply # "silent"
    /\ IF op[t].reply = "error"
       THEN /\ ret' = [ret EXCEPT ![t] = Returned("retrieve", TRUE, <<>>)]
            /\ op' = [op EXCEPT ![t].kind = "idle", ![t].pc = "idle"]
       ELSE /\ op' = [op EXCEPT ![t].kind = "search", ![t].pc = "lock",
                                ![t].query = IF op[t].reply = "short" THEN <<>>
                                             ELSE EmbeddingOf(op[t].text),
                                ![t].topK = TopK]
            /\ ret' = ret
    /\ UNCHANGED <<memory, durable, dbOpen, mu>>
    /\ UNCHANGED <<indexVars, watchVars>>

\* the provider's response arrives and CreateEmbedding returns: an error,
\* or a response without data, makes Retrieve return an error; otherwise
\* Retrieve calls store.Search(queryEmb, TopK, SimilarityThreshold), whose
\* result it returns.  Nothing ends the wait for a provider that stays
\* silent.
Retrieve_CreateEmbedding(t) ==
    /\ op[t].kind = "retrieve" /\ op[t].pc = "embed"
    /\ op[t].reply # "silent"
    /\ IF op[t].reply \in {"error", "short"}
       THEN /\ ret' = [ret EXCEPT ![t] = Returned("retrieve", TRUE, <<>>)]
            /\ op' = [op EXCEPT ![t].kind = "idle", ![t].pc = "idle"]
       ELSE /\ op' = [op EXCEPT ![t].kind = "search", ![t].pc = "lock",
                                ![t].query = EmbeddingOf(op[t].text),
                                ![t].topK = TopK]
            /\ ret' = ret
    /\ UNCHANGED <<memory, durable, dbOpen, mu>>
    /\ UNCHANGED <<indexVars, watchVars>>

GetStats_Call(t) ==
    /\ op[t].kind = "idle"
    /\ op' = [op EXCEPT ![t] = [Idle EXCEPT !.kind = "stats", !.pc = "lock"]]
    /\ ret' = [ret EXCEPT ![t] = NoReturn]
    /\ UNCHANGED <<memory, durable, dbOpen, mu>>
    /\ UNCHANGED <<indexVars, watchVars>>

GetStats_RLock(t) ==
    /\ op[t].kind = "stats" /\ op[t].pc = "lock"
    /\ CanRLock(mu)
    /\ mu' = [mu EXCEPT !.readers = @ \cup {t}]
    /\ op' = [op EXCEPT ![t].pc = "scan", ![t].snap = memory]
    /\ UNCHANGED <<memory, durable, dbOpen>>
    /\ UNCHANGED <<ret, indexVars, watchVars>>

GetStats_Return(t) ==
    /\ op[t].kind = "stats" /\ op[t].pc = "scan"
    /\ ret' = [ret EXCEPT ![t] = Returned("stats", FALSE, Stats(memory))]
    /\ op' = [op EXCEPT ![t] = Idle]
    /\ mu' = [mu EXCEPT !.readers = @ \ {t}]
    /\ UNCHANGED <<memory, durable, dbOpen>>
    /\ UNCHANGED <<indexVars, watchVars>>

\* VectorStore.Close, by the owner of the store once no call is in flight:
\* the handle is closed, the mirror object stays as it is
VectorStore_Close ==
    /\ dbOpen
    /\ \A t \in Threads : op[t].kind = "idle"
    /\ dbOpen' = FALSE
    /\ UNCHANGED <<memory, durable, mu, op, ret>>
    /\ UNCHANGED <<indexVars, watchVars>>

\* NewVectorStore on the file a closed store left behind: a new object with
\* an empty mirror and a fresh mutex, filled by loadIntoMemory
NewVectorStore ==
    /\ ~dbOpen
    /\ \A t \in Threads : op[t].kind = "idle"
    /\ dbOpen' = TRUE
    /\ memory' = loadIntoMemory(durable)
    /\ mu' = Unlocked
    /\ UNCHANGED <<durable, op, ret>>
    /\ UNCHANGED <<indexVars, watchVars>>

\* the bucket as an earlier run of the process left it
Committed(batch) == [id \in {ChunkID(batch[i]) : i \in 1..Len(batch)} |->
                        LET i == CHOOSE j \in 1..Len(batch) : ChunkID(batch[j]) = id
                        IN  EncodeChunk(WithID(batch[i]))]

\* NewVectorStore: open the file, load the bucket into memory
InitVectorStore(bucket) ==
    /\ durable = bucket
    /\ memory = loadIntoMemory(bucket)
    /\ dbOpen = TRUE
    /\ mu = Unlocked
    /\ op = [t \in Threads |-> Idle]
    /\ ret = [t \in Threads |-> NoReturn]

(***************************************************************************)
(* The file system and the cache directory.                                *)
(***************************************************************************)
Paths == {"a.txt", "b.txt"}
Versions == {VersionA, VersionB, VersionBlank}

NoFile == [exists |-> FALSE, bytes |-> <<>>, mtime |-> 0]
File(bytes, mtime) == [exists |-> TRUE, bytes |-> bytes, mtime |-> mtime]

ZeroDocument == [ID |-> 0, FilePath |-> "", Content |-> <<>>, Hash |-> 0, FileModTime |-> 0]
NoDoc == ZeroDocument
IsDoc(d) == d.ID # 0

\* The cache directory is a map from hash to the gob bytes of a file that
\* opens and decodes.  A file that is missing and a file that was created
\* (truncated) but not written to the end read the same way, as an error, so
\* both are the absence of the key.
EncodeDocument(d) == GobEncode(d, ZeroDocument)
DecodeDocument(e) == GobDecode(e, ZeroDocument)
EncodeChunks(chunks) == [i \in 1..Len(chunks) |-> EncodeChunk(chunks[i])]
DecodeChunks(e) == [i \in 1..Len(e) |-> DecodeChunk(e[i])]

\* filepath.Ext
Ext(path) == IF path \in {"a.txt", "b.txt"} THEN ".txt" ELSE ".bin"

(***************************************************************************)
(* context.Indexer.  Each operator takes the state it reads as arguments.  *)
(***************************************************************************)
\* Indexer.loadCachedDocument: hash the file, open and decode <hash>.doc.gob
loadCachedDocument(fs, cdocs, filePath) ==
    IF ~fs[filePath].exists THEN NoDoc
    ELSE LET hash == FileHash(fs[filePath].bytes)
         IN  IF hash \notin DOMAIN cdocs THEN NoDoc
             ELSE DecodeDocument(cdocs[hash])

\* Indexer.loadCachedChunks: open and decode <docID>.chunks.gob
loadCachedChunks(cchunks, docID) ==
    IF docID \notin DOMAIN cchunks THEN [err |-> TRUE, chunks |-> <<>>]
    ELSE [err |-> FALSE, chunks |-> DecodeChunks(cchunks[docID])]

Decision(cached, needsUpdate) == [cached |-> cached, needsUpdate |-> needsUpdate]

\* needsReindex that never finds the file unchanged
needsReindexAlways(fs, dcache, cdocs, filePath) ==
    Decision(NoDoc, TRUE)

\* needsReindex without the modification-time comparison
needsReindexHashOnly(fs, dcache, cdocs, filePath) ==
    LET cached == IF IsDoc(dcache[filePath]) THEN dcache[filePath]
                  ELSE loadCachedDocument(fs, cdocs, filePath)
    IN  IF ~IsDoc(cached) THEN Decision(NoDoc, TRUE)
        ELSE IF ~fs[filePath].exists THEN Decision(NoDoc, TRUE)
        ELSE IF FileHash(fs[filePath].bytes) # cached.Hash THEN Decision(cached, TRUE)
        ELSE Decision(cached, FALSE)

\* Indexer.needsReindex
needsReindex(fs, dcache, cdocs, filePath) ==
    LET cached == IF IsDoc(dcache[filePath]) THEN dcache[filePath]
                  ELSE loadCachedDocument(fs, cdocs, filePath)
    IN  IF ~IsDoc(cached) THEN Decision(NoDoc, TRUE)
        ELSE IF ~fs[filePath].exists THEN Decision(NoDoc, TRUE)
        ELSE IF FileHash(fs[filePath].bytes) # cached.Hash THEN Decision(cached, TRUE)
        ELSE IF fs[filePath].mtime > cached.FileModTime THEN Decision(cached, TRUE)
        ELSE Decision(cached, FALSE)

\* Parser.ParseDocument: parseText reads the file as fs has it; os.Stat and
\* utils.FileHash, which opens the file again, find it as `later` has it
ParseDocument(fs, later, filePath) ==
    IF Ext(filePath) # ".txt" \/ ~fs[filePath].exists \/ ~later[filePath].exists
    THEN [err |-> TRUE, doc |-> NoDoc]
    ELSE [err |-> FALSE,
          doc |-> Document(filePath, fs[filePath].bytes, later[filePath].bytes,
                           later[filePath].mtime)]

\* Indexer.cacheDocument.  outcome is how far the writes get:
\*   "no_doc"          MkdirAll or os.Create(<hash>.doc.gob) fails
\*   "doc_partial"     the doc file is created (truncated), its encoding fails
\*   "no_chunks"       the doc file is written, os.Create(<hash>.chunks.gob) fails
\*   "chunks_partial"  the chunks file is created (truncated), its encoding fails
\*   "ok"              both files are written
CacheOutcomes == {"ok", "no_doc", "doc_partial", "no_chunks", "chunks_partial"}

cacheDocument(cdocs, cchunks, doc, chunks, outcome) ==
    [docs |-> CASE outcome = "no_doc" -> cdocs
                [] outcome = "doc_partial" -> Remove(cdocs, doc.ID)
                [] OTHER -> Put(cdocs, doc.ID, EncodeDocument(doc)),
     chunks |-> CASE outcome \in {"no_doc", "doc_partial", "no_chunks"} -> cchunks
                  [] outcome = "chunks_partial" -> Remove(cchunks, doc.ID)
                  [] OTHER -> Put(cchunks, doc.ID, EncodeChunks(chunks)),
     err |-> outcome # "ok"]

\* what one IndexFile call did: the route it took, its result, the calls it
\* made, and the state it leaves
Outcome(route, err, chunks, parse, chunk, embed, produced, dcache, cdocs, cchunks) ==
    [route |-> route, err |-> err, chunks |-> chunks, parse |-> parse, chunk |-> chunk,
     embed |-> embed, produced |-> produced, docCache |-> dcache,
     cacheDocs |-> cdocs, cacheChunks |-> cchunks]

\* Indexer.IndexFile.  The file system is fs up to the read of the text and
\* `later` from then on (the same, unless the file is written meanwhile).
IndexFile(fs, later, dcache, cdocs, cchunks, filePath, forceReindex, reply, outcome) ==
    LET check == needsReindex(fs, dcache, cdocs, filePath)
        parsed == ParseDocument(fs, later, filePath)
        chunks == ChunkDocument(parsed.doc)
        embedded == CreateEmbeddings(chunks, reply)
        written == cacheDocument(cdocs, cchunks, parsed.doc, embedded.chunks, outcome)
    IN  IF ~forceReindex /\ ~check.needsUpdate /\ IsDoc(check.cached)
        THEN LET loaded == loadCachedChunks(cchunks, check.cached.ID)
             IN  Outcome("cached", loaded.err, loaded.chunks, 0, 0, 0, 0,
                         dcache, cdocs, cchunks)
        ELSE IF parsed.err
        THEN Outcome("processed", TRUE, <<>>, 1, 0, 0, 0, dcache, cdocs, cchunks)
        ELSE IF Len(chunks) = 0
        THEN Outcome("processed", TRUE, <<>>, 1, 1, 0, 0, dcache, cdocs, cchunks)
        ELSE IF embedded.err
        THEN Outcome("processed", TRUE, <<>>, 1, 1, embedded.calls, Len(chunks),
                     dcache, cdocs, cchunks)
        ELSE Outcome("processed", FALSE, embedded.chunks, 1, 1, embedded.calls, Len(chunks),
                     [dcache EXCEPT ![filePath] = parsed.doc], written.docs, written.chunks)

(***************************************************************************)
(* Bookkeeping for the claims: facts about a call, taken from the state    *)
(* the call started in.                                                    *)
(***************************************************************************)
\* the Document the indexer holds for a path: the path map's, else the cache
\* directory's record for the file's current hash
CachedDocumentFor(fs, dcache, cdocs, path) ==
    IF IsDoc(dcache[path]) THEN dcache[path]
    ELSE IF fs[path].exists
              /\ FileHash(fs[path].bytes) \in DOMAIN cdocs
         THEN DecodeDocument(cdocs[FileHash(fs[path].bytes)])
         ELSE NoDoc

\* the cache directory holds a complete entry (both records) for this hash
HasEntry(cdocs, cchunks, hash) ==
    /\ hash \in DOMAIN cdocs
    /\ hash \in DOMAIN cchunks

Contents(chunks) == [i \in 1..Len(chunks) |-> chunks[i].Content]

NoHist == [stable |-> FALSE, chunks |-> <<>>, reverted |-> FALSE]

NoCall ==
    [path |-> "", force |-> FALSE, route |-> "none", err |-> FALSE, chunks |-> <<>>,
     parse |-> 0, chunk |-> 0, embed |-> 0, produced |-> 0,
     found |-> FALSE, sameHash |-> FALSE, newer |-> FALSE, hash |-> 0, entry |-> FALSE,
     providerError |-> FALSE, providerShort |-> FALSE, prior |-> NoHist]

\* the requests CreateEmbeddings makes for n chunks when none fails
Batches(n) == (n + BatchSize - 1) \div BatchSize

CallRecord(path, force, reply, r) ==
    LET cached == CachedDocumentFor(files, docCache, cacheDocs, path)
        f == files[path]
        hash == IF f.exists THEN FileHash(f.bytes) ELSE 0
    IN  [path |-> path, force |-> force, route |-> r.route, err |-> r.err,
         chunks |-> r.chunks, parse |-> r.parse, chunk |-> r.chunk, embed |-> r.embed,
         produced |-> r.produced,
         found |-> IsDoc(cached),
         sameHash |-> IsDoc(cached) /\ f.exists /\ hash = cached.Hash,
         newer |-> IsDoc(cached) /\ f.exists /\ f.mtime > cached.FileModTime,
         hash |-> hash,
         entry |-> f.exists /\ HasEntry(cacheDocs, cacheChunks, hash),
         providerError |-> /\ r.route = "processed" /\ r.produced > 0
                           /\ reply.errorAt \in 1..Batches(r.produced),
         providerShort |-> /\ r.route = "processed" /\ r.produced > 0
                           /\ reply.shortAt \in 1..Batches(r.produced)
                           /\ (reply.errorAt = 0 \/ reply.shortAt < reply.errorAt),
         prior |-> hist[path]]

InitIndexer ==
    /\ files = [p \in Paths |-> NoFile]
    /\ clock = 1
    /\ docCache = [p \in Paths |-> NoDoc]
    /\ cacheDocs = EmptyMap
    /\ cacheChunks = EmptyMap
    /\ last = NoCall
    /\ hist = [p \in Paths |-> NoHist]

InitWatcher ==
    /\ ready = FALSE
    /\ watching = FALSE
    /\ debounce = EmptyMap
    /\ timers = EmptyMap

(***************************************************************************)
(* SpecIndex: one process calls IndexFile while files are written, touched *)
(* and removed, the clock advances, and the process restarts.              *)
(***************************************************************************)
MaxClock == 2

\* a file is created or rewritten
Written(path, bytes) ==
    /\ files' = [files EXCEPT ![path] = File(bytes, clock)]
    /\ last' = NoCall
    /\ hist' = [hist EXCEPT ![path] =
                  [stable |-> FALSE, chunks |-> <<>>,
                   reverted |-> /\ files[path].exists
                                /\ files[path].bytes # bytes
                                /\ HasEntry(cacheDocs, cacheChunks, FileHash(bytes))
                                /\ DecodeDocument(cacheDocs[FileHash(bytes)]).FilePath = path]]
    /\ UNCHANGED <<clock, docCache, cacheDocs, cacheChunks>>

WriteFile(path, bytes) ==
    /\ File(bytes, clock) # files[path]
    /\ Written(path, bytes)
    /\ UNCHANGED <<storeVars, watchVars>>

Removed(path) ==
    /\ files' = [files EXCEPT ![path] = NoFile]
    /\ hist' = [hist EXCEPT ![path] = NoHist]
    /\ last' = NoCall
    /\ UNCHANGED <<clock, docCache, cacheDocs, cacheChunks>>

RemoveFile(path) ==
    /\ files[path].exists
    /\ Removed(path)
    /\ UNCHANGED <<storeVars, watchVars>>

Tick ==
    /\ clock < MaxClock
    /\ clock' = clock + 1
    /\ last' = NoCall
    /\ UNCHANGED <<files, docCache, cacheDocs, cacheChunks, hist>>
    /\ UNCHANGED <<storeVars, watchVars>>

\* the process exits and starts again: NewIndexer makes an empty path map
Restart ==
    /\ docCache' = [p \in Paths |-> NoDoc]
    /\ hist' = [p \in Paths |-> [hist[p] EXCEPT !.stable = FALSE, !.chunks = <<>>]]
    /\ last' = NoCall
    /\ UNCHANGED <<files, clock, cacheDocs, cacheChunks>>
    /\ UNCHANGED <<storeVars, watchVars>>

\* what a call of Indexer.IndexFile that returned r leaves behind
Indexed(path, forceReindex, reply, r) ==
    /\ docCache' = r.docCache
    /\ cacheDocs' = r.cacheDocs
    /\ cacheChunks' = r.cacheChunks
    /\ last' = CallRecord(path, forceReindex, reply, r)
    /\ hist' = [hist EXCEPT ![path].stable = ~r.err,
                            ![path].chunks = IF r.err THEN <<>> ELSE r.chunks]
    /\ UNCHANGED <<files, clock>>

\* a call of Indexer.IndexFile, start to return
IndexFile_Call(path, forceReindex, reply, outcome) ==
    /\ Indexed(path, forceReindex, reply,
               IndexFile(files, files, docCache, cacheDocs, cacheChunks, path, forceReindex,
                         reply, outcome))
    /\ UNCHANGED <<storeVars, watchVars>>

InitIndex ==
    /\ InitVectorStore(EmptyMap)
    /\ InitIndexer
    /\ InitWatcher

\* the path SpecIndex writes and indexes
IndexedPaths == {"a.txt"}

\* what the provider and the cache directory do during one call: the cache
\* is written only after every batch was answered without error
Environments ==
    {<<Reply(0, 0), outcome>> : outcome \in CacheOutcomes}
        \cup {<<Reply(b, 0), "ok">> : b \in 1..MaxBatches}
        \cup {<<Reply(0, b), "ok">> : b \in 1..MaxBatches}

NextIndex ==
    \/ \E p \in IndexedPaths, b \in Versions : WriteFile(p, b)
    \/ \E p \in IndexedPaths : RemoveFile(p)
    \/ Tick
    \/ Restart
    \/ \E p \in IndexedPaths, force \in BOOLEAN, env \in Environments :
         IndexFile_Call(p, force, env[1], env[2])

SpecIndex == InitIndex /\ [][NextIndex]_vars

(***************************************************************************)
(* SpecRace: IndexFile calls that overlap with each other and with writes  *)
(* of the file.  A caller's IndexFile is followed in two steps, up to the  *)
(* point of cacheDocument where <hash>.doc.gob is written and              *)
(* <hash>.chunks.gob has been created, and from there to the return; any   *)
(* other call runs in between, start to return.  The provider answers and  *)
(* the cache directory can be written.                                     *)
(***************************************************************************)
\* IndexFile on the cache-miss path, as far as os.Create of the chunks
\* file.  The file has the bytes `bytes` when os.Stat and utils.FileHash
\* look at it: those parseText read, or those of a write in between.
IndexFile_Begin(t, path, forceReindex, bytes) ==
    /\ op[t].kind = "idle"
    /\ files[path].exists
    /\ LET later == IF bytes = files[path].bytes THEN files
                    ELSE [files EXCEPT ![path] = File(bytes, clock)]
           r == IndexFile(files, later, docCache, cacheDocs, cacheChunks, path,
                          forceReindex, AllOk, "chunks_partial")
       IN  /\ r.route = "processed" /\ ~r.err
           /\ files' = later
           /\ cacheDocs' = r.cacheDocs
           /\ cacheChunks' = r.cacheChunks
           /\ hist' = IF later = files THEN hist ELSE [hist EXCEPT ![path] = NoHist]
           /\ op' = [op EXCEPT ![t] = [Idle EXCEPT !.kind = "index", !.pc = "chunks",
                                                   !.path = path, !.doc = r.docCache[path],
                                                   !.batch = r.chunks]]
    /\ last' = NoCall
    /\ ret' = [ret EXCEPT ![t] = NoReturn]
    /\ UNCHANGED <<clock, docCache, memory, durable, dbOpen, mu, watchVars>>

\* the rest of the call: the chunks are encoded into the file, the path map
\* takes the Document, IndexFile returns the chunks
IndexFile_End(t) ==
    /\ op[t].kind = "index" /\ op[t].pc = "chunks"
    /\ cacheChunks' = Put(cacheChunks, op[t].doc.ID, EncodeChunks(op[t].batch))
    /\ docCache' = [docCache EXCEPT ![op[t].path] = op[t].doc]
    /\ ret' = [ret EXCEPT ![t] = Returned("index", FALSE, op[t].batch)]
    /\ op' = [op EXCEPT ![t] = Idle]
    /\ last' = NoCall
    /\ UNCHANGED <<files, clock, cacheDocs, hist, memory, durable, dbOpen, mu, watchVars>>

NextRace ==
    \/ \E p \in IndexedPaths, b \in {VersionA, VersionB} : WriteFile(p, b)
    \/ \E p \in IndexedPaths, force \in BOOLEAN : IndexFile_Call(p, force, AllOk, "ok")
    \/ \E t \in Threads, p \in IndexedPaths, force \in BOOLEAN, b \in {VersionA, VersionB} :
         IndexFile_Begin(t, p, force, b)
    \/ \E t \in Threads : IndexFile_End(t)

SpecRace == InitIndex /\ [][NextRace]_vars

(***************************************************************************)
(* SpecStore: two callers use one VectorStore concurrently.                *)
(***************************************************************************)
InitStore ==
    /\ \E bucket \in {EmptyMap, Committed(BatchOf("a.txt", VersionB))} :
         InitVectorStore(bucket)
    /\ InitIndexer
    /\ InitWatcher

NextStore ==
    \/ \E t \in Threads :
             \/ \E batch \in StoreBatches : AddChunks_Call(t, batch)
             \/ AddChunks_Lock(t)
             \/ AddChunks_Put(t)
             \/ AddChunks_Commit(t)
             \/ \E d \in StoreDocIDs : DeleteByDocumentID_Call(t, d)
             \/ DeleteByDocumentID_Lock(t)
             \/ DeleteByDocumentID_Scan(t)
             \/ DeleteByDocumentID_Delete(t)
             \/ DeleteByDocumentID_Commit(t)
             \/ \E q \in Queries, th \in Thresholds : Search_Call(t, q, TopK, th)
             \/ Search_RLock(t)
             \/ Search_Scan(t)
             \/ Search_Return(t)
             \/ GetStats_Call(t)
             \/ GetStats_RLock(t)
             \/ GetStats_Return(t)
    \/ VectorStore_Close
    \/ NewVectorStore

SpecStore == InitStore /\ [][NextStore]_vars

(***************************************************************************)
(* SpecSearch: Search as a function of the mirror and its arguments.  The  *)
(* store is opened on a file holding any subset of four chunks: two whose  *)
(* embeddings point the same way (equal scores for every query), one whose *)
(* score against <<1, 1>> is negative, one without an embedding.  Two      *)
(* callers search it; nothing mutates it.                                  *)
(***************************************************************************)
MaxTopK == 2

InitSearch ==
    /\ LET embeddings == <<(<<1, 1>>), (<<2, 2>>), (<<-1, 0>>), (<<>>)>>
           chunk(n) == [ID |-> <<FileHash(VersionB), n>>, DocumentID |-> FileHash(VersionB),
                        Content |-> <<1>>, Embedding |-> embeddings[n + 1],
                        Index |-> n, Source |-> "a.txt"]
       IN  \E stored \in SUBSET (0..3) :
               InitVectorStore([k \in {chunk(n).ID : n \in stored} |->
                                   EncodeChunk(chunk(k[2]))])
    /\ InitIndexer
    /\ InitWatcher

NextSearch ==
    \E t \in Threads :
        \/ \E q \in {<<>>, <<1, 1>>}, topK \in 1..MaxTopK,
              th \in {Threshold(-9, 10), Threshold(0, 1), Threshold(4, 5)} :
               Search_Call(t, q, topK, th)
        \/ Search_RLock(t)
        \/ Search_Scan(t)
        \/ Search_Return(t)

SpecSearch == InitSearch /\ [][NextSearch]_vars

(***************************************************************************)
(* SpecRetrieve: Retriever.Retrieve over the same stores.  The query text  *)
(* <<1, 2>> embeds to <<1, 1>>; the configured similarity threshold is 0   *)
(* or 4/5.                                                                 *)
(***************************************************************************)
NextRetrieve ==
    \E t \in Threads :
        \/ \E query \in {<<1, 2>>}, th \in {Threshold(0, 1), Threshold(4, 5)},
              reply \in {"ok", "short", "error", "silent"} :
               Retrieve_Call(t, query, th, reply)
        \/ Retrieve_CreateEmbedding(t)
        \/ Search_RLock(t)
        \/ Search_Scan(t)
        \/ Search_Return(t)

SpecRetrieve == InitSearch /\ [][NextRetrieve]_vars

(***************************************************************************)
(* SpecCosine: cosineSimilarity as a function of its arguments.  The store *)
(* holds one chunk, with any embedding of up to MaxDim components; each    *)
(* caller scores a query embedding against it.  A component is 0, 1 or,    *)
(* at +-4, large enough for its square to leave float32.                   *)
(***************************************************************************)
MaxDim == 2

InitCosine ==
    /\ \E n, m \in 0..MaxDim :
         \E a \in [1..n -> {-4, 0, 1, 4}], b \in [1..m -> {-4, 0, 1, 4}] :
            LET chunk == [ZeroChunk EXCEPT !.ID = <<FileHash(VersionA), 0>>,
                                           !.DocumentID = FileHash(VersionA),
                                           !.Content = <<1>>, !.Embedding = b,
                                           !.Source = "a.txt"]
                bucket == [k \in {chunk.ID} |-> EncodeChunk(chunk)]
            IN  /\ durable = bucket
                /\ memory = loadIntoMemory(bucket)
                /\ op = [t \in Threads |-> [Idle EXCEPT !.kind = "cosine", !.query = a]]
    /\ dbOpen = TRUE
    /\ mu = Unlocked
    /\ ret = [t \in Threads |-> NoReturn]
    /\ InitIndexer
    /\ InitWatcher

\* score := cosineSimilarity(queryEmbedding, chunk.Embedding)
cosineSimilarity_Call(t) ==
    /\ op[t].kind = "cosine"
    /\ \E k \in DOMAIN memory :
         ret' = [ret EXCEPT ![t] = Returned("cosine", FALSE,
                                           cosineSimilarity(op[t].query, memory[k].Embedding))]
    /\ op' = [op EXCEPT ![t].kind = "idle"]
    /\ UNCHANGED <<memory, durable, dbOpen, mu>>
    /\ UNCHANGED <<indexVars, watchVars>>

SpecCosine == InitCosine /\ [][\E t \in Threads : cosineSimilarity_Call(t)]_vars

(***************************************************************************)
(* The whole of VectorStore.AddChunks as one step, for callers whose       *)
(* interleaving inside the store is not the question.  failAt says which   *)
(* bucket.Put fails (0: none; beyond the batch: the commit fails).         *)
(***************************************************************************)
RECURSIVE AddChunksLoop(_, _, _, _, _)
AddChunksLoop(mem, tx, batch, i, failAt) ==
    IF i > Len(batch) THEN [err |-> FALSE, memory |-> mem, tx |-> tx]
    ELSE IF failAt = i THEN [err |-> TRUE, memory |-> mem, tx |-> tx]
    ELSE LET chunk == WithID(batch[i])
         IN  AddChunksLoop(Put(mem, chunk.ID, chunk), Put(tx, chunk.ID, EncodeChunk(chunk)),
                           batch, i + 1, failAt)

AddChunks(mem, dur, open, batch, failAt) ==
    LET body == AddChunksLoop(mem, dur, batch, 1, failAt)
    IN  IF ~open THEN [err |-> TRUE, memory |-> mem, durable |-> dur]
        ELSE IF body.err THEN [err |-> TRUE, memory |-> body.memory, durable |-> dur]
        ELSE IF failAt > Len(batch)
        THEN [err |-> TRUE, memory |-> body.memory, durable |-> dur]
        ELSE [err |-> FALSE, memory |-> body.memory, durable |-> body.tx]

\* Retriever.IndexChunks
IndexChunks(mem, dur, open, chunks, failAt) == AddChunks(mem, dur, open, chunks, failAt)

(***************************************************************************)
(* Indexer.IndexDirectory: filepath.Walk visits the files in lexical       *)
(* order; a file that fails is logged and left out of the results.         *)
(***************************************************************************)
WalkOrder == <<"a.txt", "b.txt">>

\* a walk that stops at the first file IndexFile fails on
RECURSIVE IndexDirectoryWalkAborting(_, _, _, _, _)
IndexDirectoryWalkAborting(fs, st, i, reply, outcome) ==
    IF i > Len(WalkOrder) THEN st
    ELSE LET path == WalkOrder[i]
             r == IndexFile(fs, fs, st.docCache, st.cacheDocs, st.cacheChunks, path,
                            FALSE, reply, outcome)
         IN  IF ~fs[path].exists \/ Ext(path) \notin SupportedExtensions
             THEN IndexDirectoryWalkAborting(fs, st, i + 1, reply, outcome)
             ELSE IF r.err THEN st
             ELSE IndexDirectoryWalkAborting(fs,
                      [docCache |-> r.docCache, cacheDocs |-> r.cacheDocs,
                       cacheChunks |-> r.cacheChunks,
                       results |-> Put(st.results, path, r.chunks)],
                      i + 1, reply, outcome)

RECURSIVE IndexDirectoryWalk(_, _, _, _, _)
IndexDirectoryWalk(fs, st, i, reply, outcome) ==
    IF i > Len(WalkOrder) THEN st
    ELSE LET path == WalkOrder[i]
             r == IndexFile(fs, fs, st.docCache, st.cacheDocs, st.cacheChunks, path,
                            FALSE, reply, outcome)
         IN  IF ~fs[path].exists \/ Ext(path) \notin SupportedExtensions
             THEN IndexDirectoryWalk(fs, st, i + 1, reply, outcome)
             ELSE IndexDirectoryWalk(fs,
                      [docCache |-> r.docCache, cacheDocs |-> r.cacheDocs,
                       cacheChunks |-> r.cacheChunks,
                       results |-> IF r.err THEN st.results
                                   ELSE Put(st.results, path, r.chunks)],
                      i + 1, reply, outcome)

IndexDirectory(fs, dcache, cdocs, cchunks, reply, outcome) ==
    IndexDirectoryWalk(fs, [docCache |-> dcache, cacheDocs |-> cdocs,
                            cacheChunks |-> cchunks, results |-> EmptyMap],
                       1, reply, outcome)

\* the orders in which a range over a Go map can visit its keys
Orders(S) == {o \in [1..Cardinality(S) -> S] : \A x \in S : \E i \in DOMAIN o : o[i] = x}

\* Orchestrator.Start's loop over the results: a batch that fails is skipped
RECURSIVE IndexResults(_, _, _, _, _, _, _)
IndexResults(results, order, i, mem, dur, open, failAt) ==
    IF i > Len(order) THEN [memory |-> mem, durable |-> dur]
    ELSE LET a == IndexChunks(mem, dur, open, results[order[i]], failAt)
         IN  IndexResults(results, order, i + 1, a.memory, a.durable, open, failAt)

(***************************************************************************)
(* SpecWatch: the Orchestrator with its Watcher.  Files are written and    *)
(* removed; the loop of watch() takes each event as it is sent; a timer    *)
(* made by time.AfterFunc runs its function in a goroutine of its own.     *)
(* A timer is "armed" (left seconds to go), "stopped" (Stop came first),   *)
(* or at a point of its function: "change" (in handleFileChange, inside    *)
(* IndexFile), "update" (in handleFileUpdate, inside IndexFile), "store"   *)
(* (before IndexChunks), "cleanup" (before delete(debounce, name)),        *)
(* "done".                                                                 *)
(***************************************************************************)
MaxEvents == 3
MaxWatchClock == 5

WatchedPaths == {"a.txt"}
WatchVersions == {VersionA, VersionB}
WatchEnvironments == {<<Reply(0, 0), "ok">>, <<Reply(1, 0), "ok">>}
\* no Put fails, or the commit fails
StoreFailures == {0, MaxBatches + 1}

\* calls: IndexFile calls made by the timer's function; stored: the document
\* id of the batch its IndexChunks stored; first: the first timer of the
\* burst of events this timer's event belongs to
Timer(path, first) ==
    [path |-> path, state |-> "armed", left |-> QuietPeriod, calls |-> 0,
     chunks |-> <<>>, stored |-> 0, first |-> first]

\* a timer that will do nothing more keeps only its path
Over(tm, state) == [Timer(tm.path, 0) EXCEPT !.state = state, !.left = 0]

Running(tm) == tm.state \in {"change", "update", "store"}

\* the timer made for the path's latest event (0: none)
Latest(path) ==
    LET S == {i \in DOMAIN timers : timers[i].path = path}
    IN  IF S = {} THEN 0 ELSE CHOOSE i \in S : \A j \in S : j <= i

\* Orchestrator.Start: IndexDirectory, IndexChunks per result, Watcher.Start
Orchestrator_Start(reply, outcome, failAt) ==
    /\ ~ready
    /\ LET st == IndexDirectory(files, docCache, cacheDocs, cacheChunks, reply, outcome)
       IN  /\ docCache' = st.docCache
           /\ cacheDocs' = st.cacheDocs
           /\ cacheChunks' = st.cacheChunks
           /\ hist' = [p \in Paths |->
                         IF p \in DOMAIN st.results
                         THEN [hist[p] EXCEPT !.stable = TRUE, !.chunks = st.results[p]]
                         ELSE [hist[p] EXCEPT !.stable = FALSE, !.chunks = <<>>]]
           /\ \E order \in Orders(DOMAIN st.results) :
                LET a == IndexResults(st.results, order, 1, memory, durable, dbOpen, failAt)
                IN  /\ memory' = a.memory
                    /\ durable' = a.durable
    /\ last' = NoCall
    /\ watching' = TRUE
    /\ ready' = TRUE
    /\ UNCHANGED <<files, clock, dbOpen, mu, op, ret, debounce, timers>>

\* Orchestrator.Stop: Watcher.Stop closes the fsnotify watcher, which ends
\* the loop of watch(); then Retriever.Close closes the database.  Nothing
\* here touches the timers.
Orchestrator_Stop ==
    /\ watching
    /\ watching' = FALSE
    /\ dbOpen' = FALSE
    /\ last' = NoCall
    /\ UNCHANGED <<memory, durable, mu, op, ret, indexState, ready, debounce, timers>>

\* a loop of watch() without the test of the extension
Watcher_EventAnyExtension(path, kind, bytes) ==
    /\ watching
    /\ Len(timers) < MaxEvents
    /\ IF path \notin Paths
       THEN /\ last' = NoCall
            /\ UNCHANGED <<files, clock, docCache, cacheDocs, cacheChunks, hist>>
       ELSE IF kind = "write"
       THEN File(bytes, clock) # files[path] /\ Written(path, bytes)
       ELSE files[path].exists /\ Removed(path)
    /\ IF kind = "write"
       THEN LET old == IF path \in DOMAIN debounce THEN debounce[path] ELSE 0
                afterStop == IF old # 0 /\ timers[old].state = "armed"
                             THEN [timers EXCEPT ![old] = Over(@, "stopped")]
                             ELSE timers
                prev == Latest(path)
                first == IF prev # 0 /\ timers[prev].state = "armed" /\ timers[prev].left > 0
                         THEN timers[prev].first
                         ELSE Len(timers) + 1
            IN  /\ timers' = Append(afterStop, Timer(path, first))
                /\ debounce' = Put(debounce, path, Len(timers) + 1)
       ELSE UNCHANGED <<debounce, timers>>
    /\ UNCHANGED <<storeVars, ready, watching>>

\* While the watcher runs, a file is written, or removed, and the loop of
\* watch() takes the event: only Write and Create events on a supported
\* extension are handled, by stopping the timer the map holds for the name
\* and making a new one.  A Remove event is read and dropped.  The contents
\* of a file outside Paths (an extension nothing reads) are not kept.
Watcher_Event(path, kind, bytes) ==
    /\ watching
    /\ Len(timers) < MaxEvents
    /\ IF path \notin Paths
       THEN /\ last' = NoCall
            /\ UNCHANGED <<files, clock, docCache, cacheDocs, cacheChunks, hist>>
       ELSE IF kind = "write"
       THEN File(bytes, clock) # files[path] /\ Written(path, bytes)
       ELSE files[path].exists /\ Removed(path)
    /\ IF kind = "write" /\ Ext(path) \in SupportedExtensions
       THEN LET old == IF path \in DOMAIN debounce THEN debounce[path] ELSE 0
                afterStop == IF old # 0 /\ timers[old].state = "armed"
                             THEN [timers EXCEPT ![old] = Over(@, "stopped")]
                             ELSE timers
                prev == Latest(path)
                first == IF prev # 0 /\ timers[prev].state = "armed" /\ timers[prev].left > 0
                         THEN timers[prev].first
                         ELSE Len(timers) + 1
            IN  /\ timers' = Append(afterStop, Timer(path, first))
                /\ debounce' = Put(debounce, path, Len(timers) + 1)
       ELSE UNCHANGED <<debounce, timers>>
    /\ UNCHANGED <<storeVars, ready, watching>>

\* a second passes; a timer whose time has come fires before the next one.
\* Time is followed while a timer is pending: nothing else in the watcher
\* reads the clock, and its reindexes are forced.
Watcher_Tick ==
    /\ clock < MaxWatchClock
    /\ \E i \in DOMAIN timers : timers[i].state = "armed"
    /\ \A i \in DOMAIN timers : timers[i].state = "armed" => timers[i].left > 0
    /\ clock' = clock + 1
    /\ timers' = [i \in DOMAIN timers |->
                    IF timers[i].state = "armed"
                    THEN [timers[i] EXCEPT !.left = @ - 1] ELSE timers[i]]
    /\ last' = NoCall
    /\ UNCHANGED <<files, docCache, cacheDocs, cacheChunks, hist>>
    /\ UNCHANGED <<storeVars, ready, watching, debounce>>

\* the timer's function starts: handleFileChange(event.Name)
Timer_Fire(i) ==
    /\ i \in DOMAIN timers
    /\ timers[i].state = "armed" /\ timers[i].left = 0
    /\ timers' = [timers EXCEPT ![i].state = "change"]
    /\ last' = NoCall
    /\ UNCHANGED <<storeVars, indexState, ready, watching, debounce>>

\* a handleFileChange whose failure ends the loop of watch()
handleFileChangeEndingLoop(i, reply, outcome) ==
    /\ i \in DOMAIN timers
    /\ timers[i].state = "change"
    /\ LET r == IndexFile(files, files, docCache, cacheDocs, cacheChunks, timers[i].path, TRUE,
                          reply, outcome)
       IN  /\ Indexed(timers[i].path, TRUE, reply, r)
           /\ timers' = [timers EXCEPT ![i].state = IF r.err THEN "cleanup" ELSE "update",
                                       ![i].calls = @ + 1]
           /\ watching' = (watching /\ ~r.err)
    /\ UNCHANGED <<storeVars, ready, debounce>>

\* Watcher.handleFileChange: IndexFile(filePath, true) returns; on success
\* the callback is called, on failure the function returns
handleFileChange(i, reply, outcome) ==
    /\ i \in DOMAIN timers
    /\ timers[i].state = "change"
    /\ LET r == IndexFile(files, files, docCache, cacheDocs, cacheChunks, timers[i].path, TRUE,
                          reply, outcome)
       IN  /\ Indexed(timers[i].path, TRUE, reply, r)
           /\ timers' = [timers EXCEPT ![i].state = IF r.err THEN "cleanup" ELSE "update",
                                       ![i].calls = @ + 1]
    /\ UNCHANGED <<storeVars, ready, watching, debounce>>

\* Orchestrator.handleFileUpdate, first half: IndexFile(filePath, true)
handleFileUpdate_IndexFile(i, reply, outcome) ==
    /\ i \in DOMAIN timers
    /\ timers[i].state = "update"
    /\ LET r == IndexFile(files, files, docCache, cacheDocs, cacheChunks, timers[i].path, TRUE,
                          reply, outcome)
       IN  /\ Indexed(timers[i].path, TRUE, reply, r)
           /\ timers' = [timers EXCEPT ![i].state = IF r.err THEN "cleanup" ELSE "store",
                                       ![i].chunks = IF r.err THEN <<>> ELSE r.chunks,
                                       ![i].calls = @ + 1]
    /\ UNCHANGED <<storeVars, ready, watching, debounce>>

\* Orchestrator.handleFileUpdate, second half: retriever.IndexChunks(chunks)
handleFileUpdate_IndexChunks(i, failAt) ==
    /\ i \in DOMAIN timers
    /\ timers[i].state = "store"
    /\ LET a == IndexChunks(memory, durable, dbOpen, timers[i].chunks, failAt)
       IN  /\ memory' = a.memory
           /\ durable' = a.durable
           /\ timers' = [timers EXCEPT
                           ![i].state = "cleanup",
                           ![i].chunks = <<>>,
                           ![i].stored = IF a.err THEN 0 ELSE timers[i].chunks[1].DocumentID]
    /\ last' = NoCall
    /\ UNCHANGED <<dbOpen, mu, op, ret, indexState, ready, watching, debounce>>

\* the end of the timer's function: delete(debounce, event.Name)
Timer_Cleanup(i) ==
    /\ i \in DOMAIN timers
    /\ timers[i].state = "cleanup"
    /\ debounce' = IF timers[i].path \in DOMAIN debounce
                   THEN Remove(debounce, timers[i].path) ELSE debounce
    /\ timers' = [timers EXCEPT ![i] = Over(@, "done")]
    /\ last' = NoCall
    /\ UNCHANGED <<storeVars, indexState, ready, watching>>

\* the context folder is empty, or holds a.txt, when the program starts
InitWatch ==
    /\ InitVectorStore(EmptyMap)
    /\ \E f \in {NoFile, File(VersionA, 1)} :
         files = [p \in Paths |-> IF p \in WatchedPaths THEN f ELSE NoFile]
    /\ clock = 1
    /\ docCache = [p \in Paths |-> NoDoc]
    /\ cacheDocs = EmptyMap
    /\ cacheChunks = EmptyMap
    /\ last = NoCall
    /\ hist = [p \in Paths |-> NoHist]
    /\ InitWatcher

NextWatch ==
    \/ \E env \in WatchEnvironments, failAt \in StoreFailures :
         Orchestrator_Start(env[1], env[2], failAt)
    \/ Orchestrator_Stop
    \/ \E p \in WatchedPaths \cup {"c.bin"}, kind \in {"write", "remove"},
          b \in WatchVersions :
         Watcher_Event(p, kind, b)
    \/ Watcher_Tick
    \/ \E i \in 1..MaxEvents : Timer_Fire(i)
    \/ \E i \in 1..MaxEvents, env \in WatchEnvironments :
         handleFileChange(i, env[1], env[2])
    \/ \E i \in 1..MaxEvents, env \in WatchEnvironments :
         handleFileUpdate_IndexFile(i, env[1], env[2])
    \/ \E i \in 1..MaxEvents, failAt \in StoreFailures :
         handleFileUpdate_IndexChunks(i, failAt)
    \/ \E i \in 1..MaxEvents : Timer_Cleanup(i)

SpecWatch == InitWatch /\ [][NextWatch]_vars

(***************************************************************************)
(* SpecRestart: the same system, started on what an earlier run of the     *)
(* process left: the store file and the cache directory hold a.txt as it   *)
(* was then (VersionA); the file is unchanged, was rewritten, or was       *)
(* removed while the process was down.                                     *)
(***************************************************************************)
InitRestart ==
    /\ InitVectorStore(Committed(BatchOf("a.txt", VersionA)))
    /\ \E f \in {NoFile, File(VersionA, 1), File(VersionB, 1)} :
         files = [p \in Paths |-> IF p \in WatchedPaths THEN f ELSE NoFile]
    /\ clock = 1
    /\ docCache = [p \in Paths |-> NoDoc]
    /\ LET doc == Document("a.txt", VersionA, VersionA, 1)
           written == cacheDocument(EmptyMap, EmptyMap, doc,
                                    BatchOf("a.txt", VersionA), "ok")
       IN  cacheDocs = written.docs /\ cacheChunks = written.chunks
    /\ last = NoCall
    /\ hist = [p \in Paths |-> NoHist]
    /\ InitWatcher

SpecRestart == InitRestart /\ [][NextWatch]_vars

(***************************************************************************)
(* SpecDebounce: the loop of watch() taken statement by statement.  The    *)
(* map debounce is a local of watch(), read and written by the loop's      *)
(* goroutine and deleted from by the goroutine of every timer, with no     *)
(* lock.  An event of the loop is two steps here: the lookup of the name   *)
(* with the Stop of the timer found, then time.AfterFunc and the store of  *)
(* its result under the name.  Between the two the timer of the event is   *)
(* in state "new": not started, not in the map.                            *)
(***************************************************************************)

\* a Write or Create event of a supported file is received: the lookup
\* debounce[event.Name] and the Stop of the timer it finds
Watcher_Lookup(path, bytes) ==
    /\ watching
    /\ Len(timers) < MaxEvents
    /\ \A i \in DOMAIN timers : timers[i].state # "new"
    /\ File(bytes, clock) # files[path]
    /\ Written(path, bytes)
    /\ LET old == IF path \in DOMAIN debounce THEN debounce[path] ELSE 0
           afterStop == IF old # 0 /\ timers[old].state = "armed"
                        THEN [timers EXCEPT ![old] = Over(@, "stopped")]
                        ELSE timers
           prev == Latest(path)
           first == IF prev # 0 /\ timers[prev].state = "armed" /\ timers[prev].left > 0
                    THEN timers[prev].first
                    ELSE Len(timers) + 1
       IN  timers' = Append(afterStop, [Timer(path, first) EXCEPT !.state = "new"])
    /\ UNCHANGED <<storeVars, ready, watching, debounce>>

\* debounce[event.Name] = time.AfterFunc(2*time.Second, ...): the timer is
\* started and stored; the loop finishes the event it has received also
\* when the watcher has been closed meanwhile
Watcher_Insert(i) ==
    /\ i \in DOMAIN timers
    /\ timers[i].state = "new"
    /\ timers' = [timers EXCEPT ![i].state = "armed"]
    /\ debounce' = Put(debounce, timers[i].path, i)
    /\ last' = NoCall
    /\ UNCHANGED <<storeVars, indexState, ready, watching>>

SpecDebounce ==
    InitWatch /\ [][\/ \E env \in WatchEnvironments, failAt \in StoreFailures :
                         Orchestrator_Start(env[1], env[2], failAt)
                    \/ Orchestrator_Stop
                    \/ \E p \in WatchedPaths, b \in WatchVersions : Watcher_Lookup(p, b)
                    \/ \E i \in 1..MaxEvents : Watcher_Insert(i)
                    \/ Watcher_Tick
                    \/ \E i \in 1..MaxEvents : Timer_Fire(i)
                    \/ \E i \in 1..MaxEvents, env \in WatchEnvironments :
                         handleFileChange(i, env[1], env[2])
                    \/ \E i \in 1..MaxEvents, env \in WatchEnvironments :
                         handleFileUpdate_IndexFile(i, env[1], env[2])
                    \/ \E i \in 1..MaxEvents, failAt \in StoreFailures :
                         handleFileUpdate_IndexChunks(i, failAt)
                    \/ \E i \in 1..MaxEvents : Timer_Cleanup(i)]_vars

(***************************************************************************)
(* SpecDir: the indexer over a folder that holds a.txt and b.txt, each     *)
(* absent or with one of the versions; b.txt was written with a.txt or a   *)
(* second later.  The folder is indexed as a whole and file by file.       *)
(***************************************************************************)
InitDir ==
    /\ InitVectorStore(EmptyMap)
    /\ \E a \in {NoFile} \cup {File(v, 1) : v \in Versions},
          b \in {NoFile} \cup {File(v, m) : v \in Versions, m \in {1, 2}} :
         files = [p \in Paths |-> IF p = "a.txt" THEN a ELSE b]
    /\ clock = 2
    /\ docCache = [p \in Paths |-> NoDoc]
    /\ cacheDocs = EmptyMap
    /\ cacheChunks = EmptyMap
    /\ last = NoCall
    /\ hist = [p \in Paths |-> NoHist]
    /\ InitWatcher

\* a call of Indexer.IndexDirectory, start to return; hist keeps the result
\* map: stable marks the paths it holds
IndexDirectory_Call(reply, outcome) ==
    /\ LET st == IndexDirectory(files, docCache, cacheDocs, cacheChunks, reply, outcome)
       IN  /\ docCache' = st.docCache
           /\ cacheDocs' = st.cacheDocs
           /\ cacheChunks' = st.cacheChunks
           /\ hist' = [p \in Paths |->
                         IF p \in DOMAIN st.results
                         THEN [hist[p] EXCEPT !.stable = TRUE, !.chunks = st.results[p]]
                         ELSE [hist[p] EXCEPT !.stable = FALSE, !.chunks = <<>>]]
    /\ last' = NoCall
    /\ UNCHANGED <<files, clock>>
    /\ UNCHANGED <<storeVars, watchVars>>

NextDir ==
    \/ \E env \in Environments : IndexDirectory_Call(env[1], env[2])
    \/ \E p \in Paths, force \in BOOLEAN, env \in Environments :
         IndexFile_Call(p, force, env[1], env[2])

SpecDir == InitDir /\ [][NextDir]_vars

(***************************************************************************)
(* SpecChunk: Embedder.ChunkDocument with the fixed method, one iteration  *)
(* of chunkFixed's loop at a time, for texts of up to MaxLen code points   *)
(* and any chunk size and overlap the configuration file can give.  A      *)
(* caller that has returned is idle and holds its arguments in op and the  *)
(* returned chunks in ret; err in ret is a run-time panic.                 *)
(***************************************************************************)
MaxLen == 3

\* Config.Validate: wake word, folder and API key as the model has them
\* (set); of the numbers only retrieval.top_k is looked at
Validate(cfg) == cfg.topK > 0

ChunkDocument_Call(t, text, size, overlap) ==
    /\ op[t].kind = "idle"
    /\ Validate([topK |-> TopK, chunkSize |-> size, chunkOverlap |-> overlap])
    /\ op' = [op EXCEPT ![t] = [Idle EXCEPT !.kind = "chunk", !.pc = "loop", !.text = text,
                                            !.size = size, !.overlap = overlap]]
    /\ ret' = [ret EXCEPT ![t] = NoReturn]
    /\ UNCHANGED <<memory, durable, dbOpen, mu>>
    /\ UNCHANGED <<indexVars, watchVars>>

\* one pass through `for i := 0; i < len(runes); i += (size - overlap)`: the
\* test, the body with its break, the increment.  runes[i:end] panics when i
\* is negative.  When the loop ends ChunkDocument filters the chunks and
\* returns.  A loop that has made more chunks than the text has code points
\* is not followed further.
chunkFixed_Step(t) ==
    /\ op[t].kind = "chunk" /\ op[t].pc = "loop"
    /\ Len(op[t].results) <= Len(op[t].text)
    /\ LET o == op[t]
           runes == o.text
           doc == [ZeroDocument EXCEPT !.ID = FileHash(runes), !.FilePath = "a.txt",
                                       !.Content = runes, !.Hash = FileHash(runes)]
           end == Min(o.i + o.size, Len(runes))
           next == Append(o.results, NewChunk(doc, Slice(runes, o.i, end), Len(o.results)))
           Keep(c) == Len(TrimSpace(c.Content)) >= MinChunkSize
           back == [Idle EXCEPT !.text = o.text, !.size = o.size, !.overlap = o.overlap]
       IN  IF ~(o.i < Len(runes))
           THEN /\ op' = [op EXCEPT ![t] = back]
                /\ ret' = [ret EXCEPT ![t] = Returned("chunk", FALSE,
                                                      SelectSeq(o.results, Keep))]
           ELSE IF o.i < 0
           THEN /\ op' = [op EXCEPT ![t] = back]
                /\ ret' = [ret EXCEPT ![t] = Returned("chunk", TRUE, <<>>)]
           ELSE IF end >= Len(runes)
           THEN /\ op' = [op EXCEPT ![t] = back]
                /\ ret' = [ret EXCEPT ![t] = Returned("chunk", FALSE, SelectSeq(next, Keep))]
           ELSE /\ op' = [op EXCEPT ![t].i = o.i + (o.size - o.overlap),
                                    ![t].results = next]
                /\ ret' = ret
    /\ UNCHANGED <<memory, durable, dbOpen, mu>>
    /\ UNCHANGED <<indexVars, watchVars>>

NextChunk ==
    \E t \in Threads :
        \/ \E n \in 0..MaxLen, size \in {2}, overlap \in 0..3 :
              \E text \in [1..n -> {NL, 1}] : ChunkDocument_Call(t, text, size, overlap)
        \/ chunkFixed_Step(t)

SpecChunk == InitIndex /\ [][NextChunk]_vars

(***************************************************************************)
(* Claims about the VectorStore (checked under SpecStore).                 *)
(***************************************************************************)
InAddBody == \E t \in Threads : op[t].kind = "add" /\ Mutating(t)
InDeleteBody == \E t \in Threads : op[t].kind = "delete" /\ Mutating(t)

\* C2: whenever no AddChunks call is inside its transaction (so after every
\* completed AddChunks, failed ones included), every chunk id in the mirror
\* is a key of the committed bucket.
C2_MirrorOnlyHoldsCommitted ==
    ~InAddBody => DOMAIN memory \subseteq DOMAIN durable

\* C3: whenever no DeleteByDocumentID call is inside its transaction (so
\* after every completed delete, failed ones included), every committed
\* chunk id is in the mirror.
C3_CommittedAllInMirror ==
    ~InDeleteBody => DOMAIN durable \subseteq DOMAIN memory

NonForced == last.route # "none" /\ ~last.force

\* C8: a non-forced IndexFile that follows a successful IndexFile of the
\* same path, with the file not modified in between, makes no parse, chunk
\* or embed call and returns chunks with the same contents in the same order.
C8_UnmodifiedFileServedFromCache ==
    (NonForced /\ last.prior.stable) =>
        /\ last.parse = 0 /\ last.chunk = 0 /\ last.embed = 0
        /\ ~last.err
        /\ Contents(last.chunks) = Contents(last.prior.chunks)

C10_RevertedFileServedFromCache ==
    (NonForced /\ last.prior.reverted /\ last.entry) =>
        /\ last.route = "cached" /\ ~last.err
        /\ last.parse = 0 /\ last.chunk = 0 /\ last.embed = 0

(***************************************************************************)
(* Claims about the Watcher and the Orchestrator (checked under SpecWatch).*)
(***************************************************************************)
\* C1: once a watcher-triggered reindex of a path has been stored by
\* IndexChunks, and the file still has the content that was stored, the store
\* (mirror and bucket) holds no chunk of that path with the document id of
\* another version of the file.
C1_NoStaleVersionAfterReindex ==
    \A i \in DOMAIN timers :
        LET tm == timers[i]
            f == files[tm.path]
        IN  (tm.state = "cleanup" /\ tm.stored # 0
                /\ f.exists /\ FileHash(f.bytes) = tm.stored) =>
                /\ \A k \in DOMAIN memory :
                       memory[k].Source = tm.path => memory[k].DocumentID = tm.stored
                /\ \A k \in DOMAIN durable :
                       DecodeChunk(durable[k]).Source = tm.path =>
                           DecodeChunk(durable[k]).DocumentID = tm.stored

\* C5: the timers of one burst of events on a path (each event less than the
\* quiet period after the one before) make at most one IndexFile call
\* between them.
C5_OneReindexPerBurst ==
    \A i, j \in DOMAIN timers :
        (timers[i].first # 0 /\ timers[i].first = timers[j].first) =>
            IF i = j THEN timers[i].calls <= 1
            ELSE timers[i].calls + timers[j].calls <= 1

\* C6: no two timers of the same path are inside their reindex at once.
C6_ReindexesOfAPathSerialized ==
    \A i, j \in DOMAIN timers :
        (i # j /\ timers[i].path = timers[j].path) =>
            ~(Running(timers[i]) /\ Running(timers[j]))

\* C7: after Stop has returned, a timer that is armed stays armed: it never
\* fires, so it starts no IndexFile call and no callback.
C7_NoTimerFiresAfterStop ==
    [][(ready /\ ~watching) =>
          \A i \in DOMAIN timers :
              timers[i].state = "armed" => timers'[i].state = "armed"]_vars

C12_ProviderErrorWritesNothing ==
    [][last'.providerError =>
          /\ last'.err
          /\ cacheDocs' = cacheDocs /\ cacheChunks' = cacheChunks
          /\ docCache' = docCache
          /\ memory' = memory /\ durable' = durable]_vars

\* the provider failed on the second batch of a file, after embedding the
\* first, while the cache directory and the path map hold an earlier version
C12_Witness ==
    /\ last.providerError /\ last.err /\ last.embed = 2
    /\ cacheDocs # EmptyMap /\ cacheChunks # EmptyMap
    /\ IsDoc(docCache[last.path]) /\ docCache[last.path].Hash # last.hash

\* C13: every chunk a successful IndexFile returns has an embedding, and so
\* has every chunk of every chunk set in the cache directory.
C13_NoPartialEmbeddingPersisted ==
    /\ (last.route # "none" /\ ~last.err) =>
           \A i \in 1..Len(last.chunks) : Len(last.chunks[i].Embedding) > 0
    /\ \A h \in DOMAIN cacheChunks :
           LET chunks == DecodeChunks(cacheChunks[h])
           IN  \A i \in 1..Len(chunks) : Len(chunks[i].Embedding) > 0

\* C14: the mirror NewVectorStore builds holds exactly the committed records
\* of the file, decoded, and it is the mirror the store had when it was
\* closed: add, close, reopen gives back the same mirror.
C14_ReopenRestoresMirror ==
    [][(~dbOpen /\ dbOpen') =>
          /\ memory' = loadIntoMemory(durable')
          /\ memory' = memory]_vars

\* C15: AddChunks is an idempotent upsert.  While a caller is in the body of
\* AddChunks with a batch whose chunks are all in the bucket and in the
\* mirror already, as a finished AddChunks of that batch leaves them, no step
\* of the call changes the bucket or the mirror; and a call that commits
\* leaves exactly one record per chunk id, the batch's, adding to the keys of
\* the bucket and of the mirror only the batch's ids that were not there.
C15_AddChunksIdempotentUpsert ==
    [][\A t \in Threads :
          (op[t].kind = "add" /\ op[t].pc = "put") =>
              LET batch == [i \in 1..Len(op[t].batch) |-> WithID(op[t].batch[i])]
                  ids == {batch[i].ID : i \in 1..Len(batch)}
                  present == \A i \in 1..Len(batch) :
                                /\ batch[i].ID \in DOMAIN durable \cap DOMAIN memory
                                /\ durable[batch[i].ID] = EncodeChunk(batch[i])
                                /\ memory[batch[i].ID] = batch[i]
              IN  /\ present => (memory' = memory /\ durable' = durable)
                  /\ (op'[t].kind = "idle" /\ ~ret'[t].err) =>
                         /\ DOMAIN durable' = DOMAIN durable \cup ids
                         /\ DOMAIN memory' = DOMAIN memory
                         /\ ids \subseteq DOMAIN memory'
                         /\ \A i \in 1..Len(batch) :
                                /\ DecodeChunk(durable'[batch[i].ID]) = batch[i]
                                /\ memory'[batch[i].ID] = batch[i]
                         /\ \A k \in DOMAIN durable \ ids : durable'[k] = durable[k]]_vars

\* AddChunks of b.txt's batch has committed over the records of a.txt's
\* batch with the same ids: still one record per id, now b.txt's
C15_Witness ==
    LET a == BatchOf("a.txt", VersionB)
        b == BatchOf("b.txt", VersionB)
    IN  /\ \E t \in Threads : ret[t] = Returned("add", FALSE, <<>>) /\ op[t].kind = "idle"
        /\ \A i \in 1..Len(b) :
               /\ ChunkID(b[i]) \in DOMAIN durable \cap DOMAIN memory
               /\ DecodeChunk(durable[ChunkID(b[i])]) = WithID(b[i])
               /\ memory[ChunkID(b[i])] = WithID(b[i])
        /\ Cardinality(DOMAIN durable) = Len(a)
        /\ Cardinality(DOMAIN memory) = Len(a)

\* C16: DeleteByDocumentID(d) leaves every chunk of another document as it
\* is, in the bucket and in the mirror, at every step of the call; and when
\* the call returns nil neither the bucket nor the mirror (which is all that
\* GetStats counts and Search scans) holds a chunk of d.
C16_DeleteRemovesThatDocumentOnly ==
    [][\A t \in Threads :
          (op[t].kind = "delete" /\ op[t].pc = "scan") =>
              LET d == op[t].docID
              IN  /\ \A k \in DOMAIN memory :
                         memory[k].DocumentID # d =>
                             (k \in DOMAIN memory' /\ memory'[k] = memory[k])
                  /\ \A k \in DOMAIN durable :
                         DecodeChunk(durable[k]).DocumentID # d =>
                             (k \in DOMAIN durable' /\ durable'[k] = durable[k])
                  /\ (op'[t].kind = "idle" /\ ~ret'[t].err) =>
                         /\ \A k \in DOMAIN durable' :
                                DecodeChunk(durable'[k]).DocumentID # d
                         /\ \A k \in DOMAIN memory' : memory'[k].DocumentID # d]_vars

(***************************************************************************)
(* Search, checked under SpecSearch.  A caller that is idle with a search  *)
(* result holds the arguments of that search in op and the result in ret;  *)
(* the mirror is the one the search scanned.                               *)
(***************************************************************************)

\* C17: Search returns at most topK results, each with a score of at least
\* threshold, in non-increasing order of score, and no chunk it scored and
\* left out has a score strictly greater than a returned one.
C17_TopKAboveThresholdDescending ==
    \A t \in Threads :
        (op[t].kind = "idle" /\ ret[t].kind = "search") =>
            LET r == ret[t].value
                returned == {r[i].Chunk.ID : i \in 1..Len(r)}
            IN  /\ Len(r) <= op[t].topK
                /\ \A i \in 1..Len(r) :
                       /\ r[i].Score = cosineSimilarity(op[t].query, r[i].Chunk.Embedding)
                       /\ ScoreGE(r[i].Score, op[t].threshold)
                /\ \A i \in 1..(Len(r) - 1) : ScoreGE(r[i].Score, r[i + 1].Score)
                /\ \A k \in DOMAIN memory \ returned :
                       Len(memory[k].Embedding) > 0 =>
                           \A i \in 1..Len(r) :
                               ~ScoreGT(cosineSimilarity(op[t].query, memory[k].Embedding),
                                        r[i].Score)

\* a search with topK = 1 and a negative threshold over three scored chunks
\* returned one of the two best and left out its equal and a lower one
C17_Witness ==
    \E t \in Threads :
        /\ op[t].kind = "idle" /\ ret[t].kind = "search"
        /\ op[t].topK = 1 /\ op[t].query = <<1, 1>> /\ op[t].threshold.num < 0
        /\ Len(ret[t].value) = 1
        /\ Cardinality({k \in DOMAIN memory : Len(memory[k].Embedding) > 0}) = 3

\* C18: two searches of the same mirror with the same query, topK and
\* threshold return the same sequence.
C18_SearchIsDeterministic ==
    \A t, u \in Threads :
        ( /\ op[t].kind = "idle" /\ ret[t].kind = "search"
          /\ op[u].kind = "idle" /\ ret[u].kind = "search"
          /\ op[t].query = op[u].query /\ op[t].topK = op[u].topK
          /\ op[t].threshold = op[u].threshold ) =>
            ret[t].value = ret[u].value

\* C19: of two searches of the same mirror with the same query and topK, the
\* one with the higher threshold does not return more results.
C19_HigherThresholdNoMoreResults ==
    \A t, u \in Threads :
        ( /\ op[t].kind = "idle" /\ ret[t].kind = "search"
          /\ op[u].kind = "idle" /\ ret[u].kind = "search"
          /\ op[t].query = op[u].query /\ op[t].topK = op[u].topK
          /\ ScoreGE(op[u].threshold, op[t].threshold) ) =>
            Len(ret[u].value) <= Len(ret[t].value)

\* with topK = 2, the search at the lower threshold returned two results and
\* the one at the higher threshold fewer
C19_Witness ==
    \E t, u \in Threads :
        /\ op[t].kind = "idle" /\ ret[t].kind = "search"
        /\ op[u].kind = "idle" /\ ret[u].kind = "search"
        /\ op[t].query = op[u].query /\ op[t].topK = 2 /\ op[u].topK = 2
        /\ ScoreGT(op[u].threshold, op[t].threshold)
        /\ Len(ret[t].value) = 2 /\ Len(ret[u].value) < 2

\* C20: no result of Search carries a chunk without an embedding.
C20_NoResultWithoutEmbedding ==
    \A t \in Threads :
        (op[t].kind = "idle" /\ ret[t].kind = "search") =>
            \A i \in 1..Len(ret[t].value) : Len(ret[t].value[i].Chunk.Embedding) > 0

\* a search with an empty query and a negative threshold returned results
\* from a mirror that holds a chunk without an embedding
C20_Witness ==
    \E t \in Threads :
        /\ op[t].kind = "idle" /\ ret[t].kind = "search"
        /\ op[t].query = <<>> /\ op[t].threshold.num < 0
        /\ ret[t].value # <<>>
        /\ \E k \in DOMAIN memory : Len(memory[k].Embedding) = 0

(***************************************************************************)
(* The watcher and the orchestrator, continued (SpecWatch).                *)
(***************************************************************************)

\* C21: when the events of a path have ceased (its latest timer has run, no
\* other timer of the path is pending or running), that timer's reindex and
\* store succeeded and the file still has the content it stored, then the
\* indexer's entry for the path is the document of that content and the
\* chunks the store holds for the path, in the mirror and in the bucket, are
\* exactly the chunks of that content.  From here on only the timer's
\* cleanup runs, so what the store holds now is what it holds for ever.
C21_ConvergesToFinalContent ==
    \A i \in DOMAIN timers :
        LET tm == timers[i]
            f == files[tm.path]
            final == {WithID(BatchOf(tm.path, f.bytes)[n]) :
                         n \in 1..Len(BatchOf(tm.path, f.bytes))}
        IN  ( /\ tm.state = "cleanup" /\ tm.stored # 0 /\ i = Latest(tm.path)
              /\ \A j \in DOMAIN timers \ {i} :
                     timers[j].path = tm.path => timers[j].state \in {"stopped", "done"}
              /\ f.exists /\ FileHash(f.bytes) = tm.stored ) =>
                /\ docCache[tm.path].Hash = tm.stored
                /\ {memory[k] : k \in {x \in DOMAIN memory : memory[x].Source = tm.path}}
                       = final
                /\ {DecodeChunk(durable[k]) :
                       k \in {x \in DOMAIN durable :
                                 DecodeChunk(durable[x]).Source = tm.path}} = final

\* C22: once a file has been removed and the watcher has nothing left to do
\* for its path (every timer of the path has been stopped or has finished),
\* the store holds no chunk of that path, in the mirror (which is what Search
\* scans) or in the bucket.  No step but a new event on the path can change
\* this state, so chunks that are there now are never removed.
C22_RemovedFileLeavesStore ==
    \A p \in WatchedPaths :
        ( /\ ready /\ watching /\ ~files[p].exists
          /\ \A i \in DOMAIN timers :
                 timers[i].path = p => timers[i].state \in {"stopped", "done"} ) =>
            /\ \A k \in DOMAIN memory : memory[k].Source # p
            /\ \A k \in DOMAIN durable : DecodeChunk(durable[k]).Source # p

(***************************************************************************)
(* The indexer over a folder (SpecDir).                                    *)
(***************************************************************************)

C24_FailedReindexKeepsLoopRunning ==
    [][/\ \A i \in DOMAIN timers :
             (timers[i].state \in {"change", "update"} /\ timers'[i].state = "cleanup") =>
                 /\ last'.err
                 /\ watching' = watching
                 /\ debounce' = debounce
                 /\ \A j \in DOMAIN timers \ {i} : timers'[j] = timers[j]
       /\ \A p \in WatchedPaths :
             (watching /\ files'[p] # files[p] /\ files'[p].exists) =>
                 /\ Len(timers') = Len(timers) + 1
                 /\ timers'[Len(timers')].path = p
                 /\ timers'[Len(timers')].state = "armed"
                 /\ debounce'[p] = Len(timers')
       /\ \A i \in DOMAIN timers :
             /\ (timers[i].state = "armed" /\ timers'[i].state # "armed") =>
                    \/ timers'[i].state = "change"
                    \/ timers'[i].state = "stopped" /\ Len(timers') = Len(timers) + 1
             /\ (timers[i].state = "change" /\ timers'[i].state # "change") =>
                    /\ timers'[i].calls = timers[i].calls + 1
                    /\ last'.path = timers[i].path /\ last'.force]_vars

\* the reindex of one event has failed in handleFileChange, and the timer
\* of a later event has fired and made its IndexFile call while the loop runs
C24_Witness ==
    \E i, j \in DOMAIN timers :
        /\ i < j /\ watching
        /\ timers[i].state = "cleanup" /\ timers[i].calls = 1
        /\ Running(timers[j]) /\ timers[j].calls >= 1

(***************************************************************************)
(* The chunker (SpecChunk).                                                *)
(***************************************************************************)

\* C25: fixed chunking terminates without a panic for every configuration
\* that passed Config.Validate: every pass through the loop that stays in
\* the loop has moved i forward (so the loop ends within len(runes)
\* passes), and no call ends in a panic.
C25_ChunkingTerminates ==
    [][\A t \in Threads :
          (op[t].kind = "chunk" /\ op'[t] # op[t]) =>
              /\ op'[t].kind = "chunk" => op'[t].i > op[t].i
              /\ ~(ret'[t].kind = "chunk" /\ ret'[t].err)]_vars

C26_EmbeddingCallAlwaysReturns ==
    \A t \in Threads :
        (op[t].kind = "retrieve" /\ op[t].pc = "embed") =>
            ENABLED Retrieve_CreateEmbedding(t)

\* C28: a Retrieve that has returned has returned an error exactly when
\* the embedding of its query failed (the provider's error, or a response
\* without data); and when the embedding succeeded and no chunk of the
\* store scores at or above the threshold against it, the result is the
\* empty sequence, without error.
C28_RetrieveFailsOnlyWithEmbedding ==
    \A t \in Threads :
        (op[t].kind = "idle" /\ op[t].reply # "none" /\ ret[t].kind # "none") =>
            LET queryEmb == EmbeddingOf(op[t].text)
                scoring == {k \in DOMAIN memory :
                               /\ Len(memory[k].Embedding) > 0
                               /\ ScoreGE(cosineSimilarity(queryEmb, memory[k].Embedding),
                                          op[t].threshold)}
            IN  /\ ret[t].err <=> op[t].reply \in {"error", "short"}
                /\ (op[t].reply = "ok" /\ scoring = {}) =>
                       (ret[t].value = <<>> /\ ~ret[t].err)
                /\ (op[t].reply = "ok" /\ scoring # {}) => Len(ret[t].value) > 0

\* one Retrieve has failed on a response without data, and another, whose
\* query was embedded, has searched a store that holds embedded chunks and
\* returned no result and no error
C28_Witness ==
    \E t, u \in Threads :
        /\ op[t].kind = "idle" /\ op[t].reply = "short" /\ ret[t].kind = "retrieve"
        /\ ret[t].err
        /\ op[u].kind = "idle" /\ op[u].reply = "ok" /\ ret[u].kind = "search"
        /\ ret[u].value = <<>> /\ ~ret[u].err
        /\ \E k \in DOMAIN memory : Len(memory[k].Embedding) > 0

\* C27: two paths with the same bytes parse to Documents with the same ID
\* and Hash, hence to one cache entry; and once one of them has been indexed
\* and the entry for that hash is complete on disk, a non-forced IndexFile
\* of the other takes the cached route: no parse, no chunking, no embedding
\* request.
C27_IdenticalContentSharesEntry ==
    \A p, q \in Paths :
        (/\ p # q /\ files[p].exists /\ files[q].exists
         /\ files[p].bytes = files[q].bytes) =>
            /\ ParseDocument(files, files, p).doc.ID = ParseDocument(files, files, q).doc.ID
            /\ ParseDocument(files, files, p).doc.Hash = ParseDocument(files, files, q).doc.Hash
            /\ (NonForced /\ last.path = q /\ hist[p].stable /\ last.entry) =>
                   /\ last.route = "cached" /\ ~last.err
                   /\ last.parse = 0 /\ last.chunk = 0 /\ last.embed = 0

\* C30: a timer's function calls the update callback exactly when its
\* reindex (the IndexFile of handleFileChange) succeeded, and what the
\* callback hands to the vector store is the chunk set that reindex
\* produced: a timer that leaves the callback's first half goes on to
\* IndexChunks, with the chunks the path's reindex returned.
C30_CallbackDeliversReindexedChunks ==
    [][\A i \in DOMAIN timers :
          /\ (timers[i].state = "change" /\ timers'[i].state # "change") =>
                 /\ timers'[i].state = "update" <=> ~last'.err
                 /\ timers'[i].state = "cleanup" <=> last'.err
          /\ (timers[i].state = "update" /\ timers'[i].state # "update") =>
                 /\ timers'[i].state = "store"
                 /\ timers'[i].chunks = hist[timers[i].path].chunks]_vars

\* C31: cosineSimilarity never fails; it returns 0 when the vectors differ
\* in length or one of them has zero norm; for every other pair the result
\* is a number in [-1, 1]; and a non-zero vector scores 1 against itself.
C31_CosineWithinUnitInterval ==
    \A t \in Threads : \A k \in DOMAIN memory :
        ret[t].kind = "cosine" =>
            LET a == op[t].query
                b == memory[k].Embedding
                score == ret[t].value
                zero(x) == \A i \in 1..Len(x) : x[i] = 0
            IN  /\ ~ret[t].err
                /\ (Len(a) # Len(b) \/ zero(a) \/ zero(b)) => score = Rat(0, 1)
                /\ ~(Len(a) # Len(b) \/ zero(a) \/ zero(b)) =>
                       /\ score.den > 0
                       /\ score.num <= score.den /\ -score.num <= score.den
                       /\ a = b => score.num = score.den

\* C32: an event on a file whose extension is not in the allow-list, and an
\* event that is neither a create nor a write, leave the debounce map and
\* the timers as they are and start no reindex: no timer, no map entry and
\* no IndexFile call is ever for a path with an unsupported extension, and
\* the step in which a file is removed changes neither the map nor a timer
\* and calls nothing.
C32_IgnoredEventsLeaveDebounceAlone ==
    [][/\ \A i \in DOMAIN timers' : Ext(timers'[i].path) \in SupportedExtensions
       /\ \A p \in DOMAIN debounce' : Ext(p) \in SupportedExtensions
       /\ last'.route # "none" => Ext(last'.path) \in SupportedExtensions
       /\ \A p \in Paths :
             (files[p].exists /\ ~files'[p].exists) =>
                 /\ debounce' = debounce /\ timers' = timers
                 /\ last' = NoCall]_vars

\* a.txt has been removed while the timer of an earlier write is pending,
\* and the timer is pending still
C32_Witness ==
    /\ watching
    /\ ~files["a.txt"].exists
    /\ "a.txt" \in DOMAIN debounce
    /\ timers[debounce["a.txt"]].state = "armed"

\* C33: at every moment at most one debounce timer per path is pending
\* (armed and not yet fired): a write event stops the path's pending timer
\* before it arms the new one, also when it arrives while an earlier
\* timer's function for the path is running or has just ended.
C33_OnePendingTimerPerPath ==
    \A i, j \in DOMAIN timers :
        (/\ timers[i].path = timers[j].path
         /\ timers[i].state = "armed" /\ timers[j].state = "armed") => i = j

\* C34: when IndexFile has returned success on the cache-miss path, the
\* cache directory holds both records for the document's hash, complete:
\* the Document record decodes to the Document the path map holds for the
\* path, and the chunk-set record decodes to the chunks returned.
C34_SuccessLeavesCompleteEntry ==
    (last.route = "processed" /\ ~last.err) =>
        /\ IsDoc(docCache[last.path]) /\ docCache[last.path].Hash = last.hash
        /\ HasEntry(cacheDocs, cacheChunks, last.hash)
        /\ DecodeDocument(cacheDocs[last.hash]) = docCache[last.path]
        /\ DecodeChunks(cacheChunks[last.hash]) = last.chunks

\* C35: every cache entry keyed by a hash holds the chunks of a file content
\* with that hash, and every Document (in the path map and in the cache
\* directory) has the Content of bytes with its Hash, also when the file is
\* rewritten while IndexFile is between reading its text and hashing it.
C35_EntriesMatchTheirHash ==
    LET OfHash(h) == {b \in Versions : FileHash(b) = h}
        Sound(doc) == \E b \in OfHash(doc.Hash) : doc.Content = parseText(b)
    IN  /\ \A p \in Paths : IsDoc(docCache[p]) => Sound(docCache[p])
        /\ \A h \in DOMAIN cacheDocs :
              /\ DecodeDocument(cacheDocs[h]).Hash = h
              /\ Sound(DecodeDocument(cacheDocs[h]))
        /\ \A h \in DOMAIN cacheChunks :
              \E b \in OfHash(h) :
                  Contents(DecodeChunks(cacheChunks[h])) =
                      Contents(ChunkDocument(Document("a.txt", b, b, 0)))

\* C37: a reader of the cache directory sees no entry or a complete one,
\* also while another IndexFile call is writing the entry for the same
\* hash: a call that found the Document record and took the cached route
\* gets the chunk-set record, not an error.
C37_ReadersSeeCompleteEntries ==
    last.route = "cached" => (~last.err /\ Len(last.chunks) > 0)

\* C36: wherever a forced IndexFile of a path would succeed, a non-forced
\* one succeeds too (same provider, same cache directory): a cached
\* Document whose chunk-set record is missing or does not decode makes the
\* call reprocess the file, not fail.
C36_NonForcedSucceedsWhereForcedDoes ==
    \A p \in IndexedPaths :
        LET forced == IndexFile(files, files, docCache, cacheDocs, cacheChunks, p, TRUE,
                                AllOk, "ok")
            plain == IndexFile(files, files, docCache, cacheDocs, cacheChunks, p, FALSE,
                               AllOk, "ok")
        IN  ~forced.err => (~plain.err /\ Contents(plain.chunks) = Contents(forced.chunks))

\* C39: when Orchestrator.Start completes, every chunk of the vector store
\* has the document id of a file that is in the context folder now, with
\* that content: the chunks an earlier run stored for a file that has been
\* changed or removed since are not in the store.
C39_StartLeavesOnlyCurrentFiles ==
    [][(~ready /\ ready') =>
          \A k \in DOMAIN memory' :
              \E p \in Paths :
                  /\ files'[p].exists
                  /\ memory'[k].DocumentID = FileHash(files'[p].bytes)]_vars

\* C40: once Orchestrator.Stop has closed the store, no timer's function
\* reaches Retriever.IndexChunks: handleFileUpdate passes chunks to the
\* store only while the store is open.
C40_NoIndexChunksOnClosedStore ==
    [][\A i \in DOMAIN timers :
          (timers[i].state = "store" /\ timers'[i].state = "cleanup") => dbOpen]_vars

\* C38: the map debounce is never accessed by two goroutines at once: while
\* the loop of watch() is between its lookup of a name and the store of the
\* name's new timer, no timer's function is at its delete(debounce, name).
C38_DebounceAccessesNeverOverlap ==
    LET storing == {i \in DOMAIN timers : timers[i].state = "new"}
        deleting == {i \in DOMAIN timers : timers[i].state = "cleanup"}
    IN  storing = {} \/ deleting = {}
====
